---- MODULE Spec2Model ----
(***************************************************************************)
(* ascertain: the schema compiler of src/src/index.js (lines 203-1190).    *)
(*                                                                         *)
(* compile(schema, options) generates two procedures from one schema, a    *)
(* fast boolean check and a diagnostic check, and returns a validator that *)
(* runs the fast one and, when it fails, stores the diagnostic one's       *)
(* issues in validator.issues.  The generated JavaScript is modelled by    *)
(* what it computes: codeGenFast and codeGenDiag walk the schema exactly   *)
(* as codeGen does and evaluate, on one data value, the statements codeGen *)
(* emits for each schema kind.                                             *)
(***************************************************************************)
EXTENDS Integers, Sequences, FiniteSets, TLC

VARIABLES
    schema,     \* the schema the validator was compiled from (NoSchema: no validator)
    thrown,     \* what the last call of the library threw (NoError: it returned)
    call,       \* the last call of an exported function other than a validator
    returned,   \* what that call returned (Unset when it threw)
    config,     \* the object bound by createValidator: [ref, value]
    allErrors,  \* options.allErrors of that compile call
    issues,     \* validator.issues: [def |-> is it an array, list |-> its elements]
    data,       \* the argument of the last invocation
    result,     \* "none" | "true" | "false" | "throw": how the last invocation ended
    validators, \* the validators compiled from schema: [allErrors, issues (a reference)]
    lists,      \* the issue arrays allocated so far; a reference is an index
    ran,        \* the procedures the last invocation ran, in order
    registry,   \* Context.registry
    lookupMap   \* Context.lookupMap, as the set of its <<value, index>> entries

\* The state of a session with several validators, and of one Context.
sessionVars == <<validators, lists, ran>>
contextVars == <<registry, lookupMap>>
vars == <<schema, thrown, call, returned, config, allErrors, issues, data, result,
          validators, lists, ran, registry, lookupMap>>

(***************************************************************************)
(* JavaScript values.  t is the kind of value; TypeOf gives `typeof`.      *)
(***************************************************************************)
VNull == [t |-> "null"]
VUndef == [t |-> "undefined"]
VNaN == [t |-> "NaN"]
VNum(n) == [t |-> "number", n |-> n]
VStr(s) == [t |-> "string", s |-> s]
VBool(b) == [t |-> "boolean", b |-> b]
VArr(items) == [t |-> "array", items |-> items]
\* A plain object: its own enumerable string keys in insertion order.
VObj(keys, vals) == [t |-> "object", keys |-> keys, vals |-> vals]
\* An Error instance (as.* sentinels are TypeErrors).
VErr(msg) == [t |-> "error", msg |-> msg]
\* A Date instance; valid is whether its time value is a number (not NaN).
VDate(valid) == [t |-> "date", valid |-> valid]
\* Not a value: evaluating the expression raised a TypeError.
THROW == [t |-> "THROW"]

TypeOf(v) ==
    CASE v.t \in {"null", "array", "object", "error", "date"} -> "object"
      [] v.t = "NaN" -> "number"
      [] OTHER -> v.t

IsNullish(v) == v.t \in {"null", "undefined"}
IsArray(v) == v.t = "array"
IsError(v) == v.t = "error"

\* Every string of the model is one character long, so s[0] is s itself.
Chars(v) == <<v>>

\* Mutant of Get: a property the object lacks reads as null.
Get_MissingIsNull(v, key) ==
    CASE v.t \in {"THROW", "null", "undefined"} -> THROW
      [] v.t = "object" -> IF \E i \in 1..Len(v.keys) : v.keys[i] = key
                           THEN v.vals[key] ELSE VNull
      [] OTHER -> VUndef

\* value[key] for a declared property name (never "length" or an index).
Get(v, key) ==
    CASE v.t \in {"THROW", "null", "undefined"} -> THROW
      [] v.t = "object" -> IF \E i \in 1..Len(v.keys) : v.keys[i] = key
                           THEN v.vals[key] ELSE VUndef
      [] OTHER -> VUndef

\* value[idx] for a position idx = 0, 1, ...
GetIdx(v, idx) ==
    CASE v.t \in {"THROW", "null", "undefined"} -> THROW
      [] v.t = "array" -> IF idx < Len(v.items) THEN v.items[idx + 1] ELSE VUndef
      [] v.t = "string" -> IF idx < Len(Chars(v)) THEN Chars(v)[idx + 1] ELSE VUndef
      [] OTHER -> VUndef

\* The elements a `for (key = 0; key < value.length; key++)` loop visits.
LoopItems(v) ==
    CASE v.t = "array" -> v.items
      [] v.t = "string" -> Chars(v)
      [] OTHER -> <<>>

\* Object.keys(value), for a value that is not null or undefined.
ObjectKeys(v) ==
    CASE v.t = "object" -> v.keys
      [] v.t = "array" -> [i \in 1..Len(v.items) |-> ToString(i - 1)]
      [] v.t = "string" -> [i \in 1..Len(Chars(v)) |-> ToString(i - 1)]
      [] OTHER -> <<>>

\* The values of Object.entries(value), in the order of ObjectKeys.
ObjectValues(v) ==
    CASE v.t = "object" -> [i \in 1..Len(v.keys) |-> v.vals[v.keys[i]]]
      [] v.t = "array" -> v.items
      [] v.t = "string" -> Chars(v)
      [] OTHER -> <<>>

(***************************************************************************)
(* Schemas.  k is the kind codeGen dispatches on.                          *)
(***************************************************************************)
NoSchema == [k |-> "none"]
SNull == [k |-> "null"]
SType(name) == [k |-> "type", name |-> name]
SLit(v) == [k |-> "lit", v |-> v]
\* A constructor other than String, Number, Boolean, BigInt, Symbol, Function.
SClass(name) == [k |-> "class", name |-> name]
\* A symbol used as a schema.
SSymbol(description) == [k |-> "symbol", description |-> description]
SArr(items) == [k |-> "array", items |-> items]
\* A RegExp schema: source is schema.toString(), texts the strings it matches.
SPattern(source, texts) == [k |-> "pattern", source |-> source, texts |-> texts]
\* keys: the declared properties in declaration order; ks / vs: the $keys and
\* $values schemas (a sequence of length 0 or 1); strict: schema[$strict].
SObjFull(keys, props, ks, vs, strict) ==
    [k |-> "object", keys |-> keys, props |-> props, ks |-> ks, vs |-> vs, strict |-> strict]
SObj(keys, props) == SObjFull(keys, props, <<>>, <<>>, FALSE)
SOr(schemas) == [k |-> "or", schemas |-> schemas]
SAnd(schemas) == [k |-> "and", schemas |-> schemas]
SOptional(s) == [k |-> "optional", schemas |-> <<s>>]
STuple(schemas) == [k |-> "tuple", schemas |-> schemas]
SDiscriminated(schemas, key) == [k |-> "discriminated", schemas |-> schemas, key |-> key]

PrimitiveType(name) ==
    CASE name = "String" -> "string"
      [] name = "Number" -> "number"
      [] name = "Boolean" -> "boolean"

Min(S) == CHOOSE x \in S : \A y \in S : x <= y

\* schema === Error || schema.prototype instanceof Error
isError(name) == name \in {"Error", "TypeError"}

\* Mutant of valueOfIsNaN: only the number NaN, never an object's valueOf().
valueOfIsNaN_NumberOnly(v) == v.t = "NaN"

\* Number.isNaN(value?.valueOf?.())
valueOfIsNaN(v) == v.t = "NaN" \/ (v.t = "date" /\ ~v.valid)

\* value instanceof <the constructor called name>, for an object value.
InstanceOf(v, name) ==
    CASE v.t = "error" -> name \in {"Error", "TypeError", "Object"}
      [] v.t = "array" -> name \in {"Array", "Object"}
      [] v.t = "date" -> name \in {"Date", "Object"}
      [] v.t = "object" -> name = "Object"
      [] OTHER -> FALSE

\* value?.constructor?.name
ConstructorOf(v) ==
    CASE v.t = "string" -> "String"
      [] v.t \in {"number", "NaN"} -> "Number"
      [] v.t = "boolean" -> "Boolean"
      [] v.t = "array" -> "Array"
      [] v.t = "error" -> "TypeError"
      [] v.t = "date" -> "Date"
      [] v.t = "object" -> "Object"
      [] OTHER -> "undefined"

\* The value the generated code compares with: the schema literal is written
\* into the code as JSON.stringify(literal), and JSON.stringify(NaN) is the
\* text `null`.
LiteralValue(v) == IF v.t = "NaN" THEN VNull ELSE v

\* a === b.
StrictEquals(a, b) == a = b /\ a.t # "NaN"

RECURSIVE ToStr(_)
\* String(value), which is also `${value}` for the values of the model.
ToStr(v) ==
    CASE v.t = "null" -> "null"
      [] v.t = "undefined" -> "undefined"
      [] v.t = "NaN" -> "NaN"
      [] v.t = "number" -> ToString(v.n)
      [] v.t = "string" -> v.s
      [] v.t = "boolean" -> IF v.b THEN "true" ELSE "false"
      [] v.t = "array" ->
            IF v.items = <<>> THEN ""
            ELSE LET h == IF IsNullish(Head(v.items)) THEN "" ELSE ToStr(Head(v.items))
                 IN  IF Len(v.items) = 1 THEN h ELSE h \o "," \o ToStr(VArr(Tail(v.items)))
      [] v.t = "object" -> "[object Object]"
      [] v.t = "error" -> "TypeError: " \o v.msg
      [] v.t = "date" -> IF v.valid THEN "Thu Jan 01 1970 00:00:00 GMT+0000 (Coordinated Universal Time)"
                         ELSE "Invalid Date"

\* schema.test(text) for a RegExp schema.
test(s, text) == text \in s.texts

(***************************************************************************)
(* Fast mode.  A fragment ends "ok" (nothing failed), "fail" (it ran       *)
(* `fail`) or "throw" (a statement raised a TypeError).  At the top level  *)
(* `fail` is `return false;`; under or() it is `branchValid = false;`,     *)
(* which does not leave the fragment: the statements after it still run.   *)
(***************************************************************************)
\* The outcome of statements run one after the other.
RunFast(inOr, outs) ==
    IF inOr
    THEN IF \E i \in 1..Len(outs) : outs[i] = "throw" THEN "throw"
         ELSE IF \E i \in 1..Len(outs) : outs[i] = "fail" THEN "fail"
         ELSE "ok"
    ELSE LET bad == {i \in 1..Len(outs) : outs[i] # "ok"}
         IN IF bad = {} THEN "ok" ELSE outs[Min(bad)]

Guard(failed) == IF failed THEN "fail" ELSE "ok"

\* or(): the branches run in order until one leaves its branchValid true
\* (`if (!foundValid) { let branchValid = true; ... }`); outs are the
\* branches' outcomes.
orFast(outs) ==
    LET done == {i \in 1..Len(outs) : outs[i] # "fail"}
    IN  IF done = {} THEN "fail"
        ELSE IF outs[Min(done)] = "throw" THEN "throw" ELSE "ok"

\* Mutant of extraKeys: the declared names are not set aside.
extraKeys_DeclaredIncluded(keys, declared) == keys

\* $strict: Object.keys(value).filter(k => !keys.has(k)), keys being the set
\* of Object.keys(schema).
extraKeys(keys, declared) ==
    SelectSeq(keys, LAMBDA key : \A j \in 1..Len(declared) : key # declared[j])

\* Mutant of tupleLength: at most n elements, as an array schema of several
\* positions requires.
tupleLength_AtMost(v, n) == Len(v.items) > n

\* tuple(): `value.length !== schemas.length` of an array value.
tupleLength(v, n) == Len(v.items) # n

\* Mutant of tooLong: the length must be n, as tuple() requires.
tooLong_Exact(v, n) == Len(LoopItems(v)) # n

\* An array schema of n > 1 positions: `value.length > n`.
tooLong(v, n) == Len(LoopItems(v)) > n

\* Mutant of optionalAbsent: the guard tests undefined alone.
optionalAbsent_UndefinedOnly(v) == v.t = "undefined"

\* optional(): `value !== undefined && value !== null` guards the child.
optionalAbsent(v) == IsNullish(v)

RECURSIVE codeGenFast(_, _, _)
codeGenFast(s, v, inOr) ==
    IF v.t = "THROW" THEN "throw"
    ELSE CASE s.k = "and" ->
        RunFast(inOr, [i \in 1..Len(s.schemas) |-> codeGenFast(s.schemas[i], v, inOr)])
      [] s.k = "or" ->
        orFast([i \in 1..Len(s.schemas) |-> codeGenFast(s.schemas[i], v, TRUE)])
      [] s.k = "optional" ->
        IF optionalAbsent(v) THEN "ok" ELSE codeGenFast(s.schemas[1], v, inOr)
      [] s.k = "tuple" ->
        RunFast(inOr,
            <<Guard(v.t = "null" \/ TypeOf(v) # "object" \/ ~IsArray(v)
                    \/ tupleLength(v, Len(s.schemas)))>>
            \o [i \in 1..Len(s.schemas) |-> codeGenFast(s.schemas[i], GetIdx(v, i - 1), inOr)])
      [] s.k = "discriminated" ->
        LET d == Get(v, s.key)
            hit == {i \in 1..Len(s.schemas) :
                        StrictEquals(d, LiteralValue(s.schemas[i].props[s.key].v))}
        IN  RunFast(inOr,
                <<Guard(IsNullish(v) \/ TypeOf(v) # "object" \/ IsError(v)),
                  IF d.t = "THROW" THEN "throw"
                  ELSE IF hit = {} THEN "fail"
                  ELSE codeGenFast(s.schemas[Min(hit)], v, inOr)>>)
      [] s.k = "type" ->
        Guard(TypeOf(v) # PrimitiveType(s.name) \/ (s.name = "Number" /\ v.t = "NaN"))
      [] s.k = "class" ->
        Guard(\/ IsNullish(v)
              \/ ~isError(s.name) /\ IsError(v)
              \/ TypeOf(v) = "object" /\ ~InstanceOf(v, s.name)
              \/ TypeOf(v) # "object" /\ ConstructorOf(v) # s.name
              \/ valueOfIsNaN(v))
      [] s.k = "symbol" -> Guard(TypeOf(v) # "symbol")
      [] s.k = "array" ->
        RunFast(inOr,
            <<Guard(~IsArray(v))>>
            \o (IF Len(s.items) = 1
                THEN IF IsNullish(v) THEN <<"throw">>
                     ELSE [i \in 1..Len(LoopItems(v)) |->
                              codeGenFast(s.items[1], LoopItems(v)[i], inOr)]
                ELSE IF Len(s.items) > 1
                THEN IF IsNullish(v) THEN <<"throw">>
                     ELSE <<Guard(tooLong(v, Len(s.items)))>>
                          \o [i \in 1..Len(s.items) |->
                                 codeGenFast(s.items[i], GetIdx(v, i - 1), inOr)]
                ELSE <<>>))
      [] s.k = "object" ->
        RunFast(inOr,
            <<Guard(v.t = "null" \/ TypeOf(v) # "object" \/ IsError(v))>>
            \o (IF Len(s.ks) = 0 THEN <<>>
                ELSE IF IsNullish(v) THEN <<"throw">>
                ELSE [i \in 1..Len(ObjectKeys(v)) |->
                         codeGenFast(s.ks[1], VStr(ObjectKeys(v)[i]), inOr)])
            \o (IF Len(s.vs) = 0 THEN <<>>
                ELSE IF IsNullish(v) THEN <<"throw">>
                ELSE [i \in 1..Len(ObjectValues(v)) |->
                         codeGenFast(s.vs[1], ObjectValues(v)[i], inOr)])
            \o (IF ~s.strict THEN <<>>
                ELSE IF IsNullish(v) THEN <<"throw">>
                ELSE <<Guard(Len(extraKeys(ObjectKeys(v), s.keys)) # 0)>>)
            \o [i \in 1..Len(s.keys) |->
                   codeGenFast(s.props[s.keys[i]], Get(v, s.keys[i]), inOr)])
      [] s.k = "pattern" ->
        Guard(IsNullish(v) \/ IsError(v) \/ ~test(s, ToStr(v)))
      [] s.k = "null" -> Guard(~IsNullish(v))
      [] s.k = "lit" ->
        Guard(TypeOf(v) # TypeOf(s.v) \/ ~StrictEquals(v, LiteralValue(s.v)))

(***************************************************************************)
(* Text built by the generated code's template literals.                   *)
(***************************************************************************)
\* value.constructor?.name of a non-null object.
ConstructorName(v) ==
    CASE v.t = "array" -> "Array"
      [] v.t = "error" -> "TypeError"
      [] v.t = "date" -> "Date"
      [] OTHER -> "Object"

\* JSON.stringify of a string, number or boolean, which is also toLiteral.
toLiteral(v) ==
    CASE v.t = "string" -> "\"" \o v.s \o "\""
      [] v.t = "NaN" -> "null"
      [] OTHER -> ToStr(v)

\* `${JSON.stringify(value)}` of a discriminant read from the data.
JsonText(v) ==
    CASE v.t \in {"string", "number", "boolean", "NaN"} -> toLiteral(v)
      [] v.t = "null" -> "null"
      [] v.t = "undefined" -> "undefined"
      [] v.t = "array" -> "[" \o ToStr(v) \o "]"
      [] v.t = "date" -> IF v.valid THEN "\"1970-01-01T00:00:00.000Z\"" ELSE "null"
      [] OTHER -> "{}"

RECURSIVE JoinText(_, _)
JoinText(texts, sep) ==
    IF texts = <<>> THEN ""
    ELSE IF Len(texts) = 1 THEN texts[1]
    ELSE texts[1] \o sep \o JoinText(Tail(texts), sep)

RECURSIVE Concat(_)
Concat(seqs) == IF seqs = <<>> THEN <<>> ELSE Head(seqs) \o Concat(Tail(seqs))

(***************************************************************************)
(* Diagnostic mode.  mode.em is what `emit` generates: "return" in         *)
(* first-error mode (`issues = [issue]; return issues;`), "push" in        *)
(* all-errors mode, "assign" for a first-error emit whose return was       *)
(* stripped.  path is mode.path, pathExpr the value of mode.pathExpr.      *)
(***************************************************************************)
PKey(key) == [key |-> key]
PIdx(idx) == [idx |-> idx]

\* childMode with a compile-time key: pathExpr is JSON.stringify(newPath).
childMode(mode, seg) ==
    [em |-> mode.em, path |-> Append(mode.path, seg), pathExpr |-> Append(mode.path, seg)]

\* childMode with { dynamic: key }: path stays mode.path, pathExpr is
\* mode.path followed by the loop variable's value.
childModeDynamic(mode, seg) ==
    [em |-> mode.em, path |-> mode.path, pathExpr |-> Append(mode.path, seg)]

\* Context.unique: prefix, "$$" and the running index.
unique(prefix, varIndex) == <<prefix, "$", "$", ToString(varIndex)>>

\* Whether new RegExp(source) can match text: `$` in a pattern is the
\* end-of-input assertion, so nothing matches once more pattern follows a `$`.
RegExpCanMatch(source) == ~\E i \in 1..(Len(source) - 1) : source[i] = "$"

\* The emit of an or() branch in first-error mode after
\* branchCode.replace(new RegExp(`; return ${branchIssues};`, 'g'), ';').
BranchEmit ==
    IF RegExpCanMatch(<<"; return ">> \o unique("iss", 0) \o <<";">>)
    THEN "assign" ELSE "return"

\* What a fragment did: out, the issues it emitted in order; ret, whether it
\* executed a return; rv, the value returned.
emit(mode, msg) ==
    LET issue == [message |-> msg, path |-> mode.pathExpr]
    IN  [out |-> <<issue>>, ret |-> mode.em = "return",
         rv |-> IF mode.em = "return" THEN <<issue>> ELSE <<>>]

Nothing == [out |-> <<>>, ret |-> FALSE, rv |-> <<>>]

\* The issues variable after a fragment that emitted `out` into it.
VarAfter(em, cur, out) ==
    IF em = "push" THEN cur \o out
    ELSE IF out = <<>> THEN cur ELSE <<out[Len(out)]>>

\* Fragments run one after the other, up to the first return.
RunDiag(rs) ==
    LET stop == {i \in 1..Len(rs) : rs[i].ret}
        last == IF stop = {} THEN Len(rs) ELSE Min(stop)
    IN  [out |-> Concat([i \in 1..last |-> rs[i].out]),
         ret |-> stop # {},
         rv |-> IF stop = {} THEN <<>> ELSE rs[last].rv]

NonNullable(mode, v) == emit(mode, "Invalid value " \o ToStr(v) \o ", expected non-nullable")

\* or() in first-error mode; rs are the branches' results, each branch
\* emitting with `em` into a branchIssues variable of its own.  A branch that
\* returns ends the procedure; one that leaves branchIssues unset sets
\* foundValid; with none, `return firstBranchIssues`.
orFirstError(em, rs) ==
    LET bi == [i \in 1..Len(rs) |-> VarAfter(em, <<>>, rs[i].out)]
        done == {i \in 1..Len(rs) : rs[i].ret \/ bi[i] = <<>>}
    IN  IF done = {} THEN [out |-> <<>>, ret |-> TRUE, rv |-> bi[1]]
        ELSE IF rs[Min(done)].ret
             THEN [out |-> <<>>, ret |-> TRUE, rv |-> rs[Min(done)].rv]
             ELSE Nothing

\* Mutant of orAllErrors: only the first branch's issues reach localIssues.
orAllErrors_FirstBranchOnly(rs) ==
    IF \E i \in 1..Len(rs) : rs[i].out = <<>> THEN Nothing
    ELSE [out |-> rs[1].out, ret |-> FALSE, rv |-> <<>>]

\* or() in all-errors mode: each branch's issues go to localIssues, which is
\* pushed to the enclosing issues unless a branch left its branchIssues unset.
orAllErrors(rs) ==
    IF \E i \in 1..Len(rs) : rs[i].out = <<>> THEN Nothing
    ELSE [out |-> Concat([i \in 1..Len(rs) |-> rs[i].out]), ret |-> FALSE, rv |-> <<>>]

RECURSIVE codeGenDiag(_, _, _)
codeGenDiag(s, v, mode) ==
    CASE s.k = "and" ->
        RunDiag([i \in 1..Len(s.schemas) |-> codeGenDiag(s.schemas[i], v, mode)])
      [] s.k = "or" /\ mode.em # "push" ->
        orFirstError(BranchEmit, [i \in 1..Len(s.schemas) |->
            codeGenDiag(s.schemas[i], v, [mode EXCEPT !.em = BranchEmit])])
      [] s.k = "or" /\ mode.em = "push" ->
        orAllErrors([i \in 1..Len(s.schemas) |-> codeGenDiag(s.schemas[i], v, mode)])
      [] s.k = "optional" ->
        IF optionalAbsent(v) THEN Nothing ELSE codeGenDiag(s.schemas[1], v, mode)
      [] s.k = "tuple" ->
        IF IsNullish(v) THEN NonNullable(mode, v)
        ELSE IF TypeOf(v) # "object"
        THEN emit(mode, "Invalid type " \o TypeOf(v) \o ", expected an instance of Array")
        ELSE IF ~IsArray(v)
        THEN emit(mode, "Invalid instance of " \o ConstructorName(v)
                        \o ", expected an instance of Array")
        ELSE IF tupleLength(v, Len(s.schemas))
        THEN emit(mode, "Invalid tuple length " \o ToString(Len(v.items))
                        \o ", expected " \o ToString(Len(s.schemas)))
        ELSE RunDiag([i \in 1..Len(s.schemas) |->
                 codeGenDiag(s.schemas[i], GetIdx(v, i - 1), childMode(mode, PIdx(i - 1)))])
      [] s.k = "discriminated" ->
        IF IsNullish(v) THEN NonNullable(mode, v)
        ELSE IF TypeOf(v) # "object"
        THEN emit(mode, "Invalid type " \o TypeOf(v) \o ", expected an object")
        ELSE IF IsError(v) THEN emit(mode, v.msg)
        ELSE LET d == Get(v, s.key)
                 hit == {i \in 1..Len(s.schemas) :
                        StrictEquals(d, LiteralValue(s.schemas[i].props[s.key].v))}
             IN  IF hit # {} THEN codeGenDiag(s.schemas[Min(hit)], v, mode)
                 ELSE emit(mode, "Invalid discriminant value " \o JsonText(d)
                           \o ", expected one of: "
                           \o JoinText([i \in 1..Len(s.schemas) |->
                                  toLiteral(s.schemas[i].props[s.key].v)], ", "))
      [] s.k = "type" ->
        IF IsNullish(v) THEN NonNullable(mode, v)
        ELSE IF IsError(v) THEN emit(mode, v.msg)
        ELSE IF TypeOf(v) # PrimitiveType(s.name)
        THEN emit(mode, "Invalid type " \o TypeOf(v) \o ", expected type " \o s.name)
        ELSE IF s.name = "Number" /\ v.t = "NaN"
        THEN emit(mode, "Invalid value " \o ToStr(v) \o ", expected a valid " \o s.name)
        ELSE Nothing
      [] s.k = "class" ->
        IF IsNullish(v) THEN NonNullable(mode, v)
        ELSE IF ~isError(s.name) /\ IsError(v) THEN emit(mode, v.msg)
        ELSE IF TypeOf(v) = "object" /\ ~InstanceOf(v, s.name)
        THEN emit(mode, "Invalid instance of " \o ConstructorOf(v)
                        \o ", expected an instance of " \o s.name)
        ELSE IF TypeOf(v) # "object" /\ ConstructorOf(v) # s.name
        THEN emit(mode, "Invalid type " \o ConstructorOf(v) \o ", expected type " \o s.name)
        ELSE IF valueOfIsNaN(v)
        THEN emit(mode, "Invalid value " \o ToStr(v) \o ", expected a valid " \o s.name)
        ELSE Nothing
      [] s.k = "symbol" ->
        IF TypeOf(v) # "symbol"
        THEN emit(mode, "Invalid type " \o TypeOf(v) \o ", expected symbol")
        ELSE Nothing
      [] s.k = "array" ->
        IF IsNullish(v) THEN NonNullable(mode, v)
        ELSE IF IsError(v) THEN emit(mode, v.msg)
        ELSE IF TypeOf(v) # "object"
        THEN emit(mode, "Invalid type " \o TypeOf(v) \o ", expected an instance of Array")
        ELSE IF ~IsArray(v)
        THEN emit(mode, "Invalid instance of " \o ConstructorName(v)
                        \o ", expected an instance of Array")
        ELSE IF Len(s.items) = 1
        THEN RunDiag([i \in 1..Len(v.items) |->
                 codeGenDiag(s.items[1], v.items[i], childModeDynamic(mode, PIdx(i - 1)))])
        ELSE IF Len(s.items) > 1
        THEN IF tooLong(v, Len(s.items))
             THEN emit(mode, "Invalid tuple length " \o ToString(Len(v.items))
                             \o ", expected " \o ToString(Len(s.items)))
             ELSE RunDiag([i \in 1..Len(s.items) |->
                      codeGenDiag(s.items[i], GetIdx(v, i - 1), childMode(mode, PIdx(i - 1)))])
        ELSE Nothing
      [] s.k = "object" ->
        IF IsNullish(v) THEN NonNullable(mode, v)
        ELSE IF TypeOf(v) # "object"
        THEN emit(mode, "Invalid type " \o TypeOf(v) \o ", expected an instance of Object")
        ELSE IF IsError(v) THEN emit(mode, v.msg)
        ELSE LET keys == ObjectKeys(v)
                 extra == extraKeys(keys, s.keys)
             IN RunDiag(
                (IF Len(s.ks) = 0 THEN <<>>
                 ELSE [i \in 1..Len(keys) |->
                          codeGenDiag(s.ks[1], VStr(keys[i]),
                                      childModeDynamic(mode, PKey(keys[i])))])
                \o (IF Len(s.vs) = 0 THEN <<>>
                    ELSE [i \in 1..Len(keys) |->
                             codeGenDiag(s.vs[1], ObjectValues(v)[i],
                                         childModeDynamic(mode, PKey(keys[i])))])
                \o (IF s.strict /\ extra # <<>>
                    THEN <<emit(mode, "Extra properties: " \o JoinText(extra, ",")
                                      \o ", are not allowed")>>
                    ELSE <<>>)
                \o [i \in 1..Len(s.keys) |->
                       codeGenDiag(s.props[s.keys[i]], Get(v, s.keys[i]),
                                   childMode(mode, PKey(s.keys[i])))])
      [] s.k = "pattern" ->
        IF IsNullish(v) THEN NonNullable(mode, v)
        ELSE IF IsError(v) THEN emit(mode, v.msg)
        ELSE IF ~test(s, ToStr(v))
        THEN emit(mode, "Invalid value " \o ToStr(v) \o ", expected to match " \o s.source)
        ELSE Nothing
      [] s.k = "null" ->
        IF ~IsNullish(v)
        THEN emit(mode, "Invalid value " \o ToStr(v) \o ", expected nullable")
        ELSE Nothing
      [] s.k = "lit" ->
        IF IsError(v) THEN emit(mode, v.msg)
        ELSE IF TypeOf(v) # TypeOf(s.v)
        THEN emit(mode, "Invalid type " \o TypeOf(v) \o ", expected " \o TypeOf(s.v))
        ELSE IF ~StrictEquals(v, LiteralValue(s.v))
        THEN emit(mode, "Invalid value " \o ToStr(v) \o ", expected " \o toLiteral(s.v))
        ELSE Nothing

(***************************************************************************)
(* What codeGen throws while it walks the schema.                          *)
(***************************************************************************)
NoError == [name |-> "none"]
TypeErrorOf(message) == [name |-> "TypeError", message |-> message]
NoCall == [fn |-> "none"]
Unset == [k |-> "unset"]
\* The function compile returns.
Validator == [k |-> "validator"]

\* typeof s !== 'object' || s === null || !(key in s), for a variant s.
LacksKey(s, key) ==
    \/ s.k \in {"type", "class", "lit", "symbol", "null"}
    \/ s.k = "object" /\ \A i \in 1..Len(s.keys) : s.keys[i] # key
    \/ s.k \in {"array", "pattern"}
    \/ s.k \in {"or", "and", "optional", "tuple", "discriminated"} /\ key # "schemas"

\* Mutant of NotALiteral: any value at the key passes for a literal.
NotALiteral_Never(s, key) == FALSE

\* typeof discriminantValue is not 'string', 'number' or 'boolean'.
NotALiteral(s, key) == s.k # "object" \/ s.props[key].k # "lit"

RECURSIVE codeGenErrors(_)
\* The errors the checks of codeGen would raise, in the order codeGen
\* reaches them; the first one is thrown.
codeGenErrors(s) ==
    CASE s.k \in {"and", "or", "optional", "tuple"} ->
            Concat([i \in 1..Len(s.schemas) |-> codeGenErrors(s.schemas[i])])
      [] s.k = "discriminated" ->
            LET bad == {i \in 1..Len(s.schemas) :
                           LacksKey(s.schemas[i], s.key) \/ NotALiteral(s.schemas[i], s.key)}
            IN  IF bad = {}
                THEN Concat([i \in 1..Len(s.schemas) |-> codeGenErrors(s.schemas[i])])
                ELSE IF LacksKey(s.schemas[Min(bad)], s.key)
                THEN <<TypeErrorOf("discriminated: each schema must have the discriminant key \""
                                   \o s.key \o "\"")>>
                ELSE <<TypeErrorOf("discriminated: discriminant value must be a string, number, or boolean literal")>>
      [] s.k = "array" ->
            Concat([i \in 1..Len(s.items) |-> codeGenErrors(s.items[i])])
      [] s.k = "object" ->
            Concat([i \in 1..Len(s.ks) |-> codeGenErrors(s.ks[i])])
            \o Concat([i \in 1..Len(s.vs) |-> codeGenErrors(s.vs[i])])
            \o Concat([i \in 1..Len(s.keys) |-> codeGenErrors(s.props[s.keys[i]])])
      [] OTHER -> <<>>

codeGenError(s) == IF codeGenErrors(s) = <<>> THEN NoError ELSE codeGenErrors(s)[1]

(***************************************************************************)
(* compile: the procedures built from the schema, and the validator.       *)
(***************************************************************************)
\* fastValidator(data): "ok" is `return true`, "fail" is `return false`.
fastValidator(s, d) == codeGenFast(s, d, FALSE)

RootMode(em) == [em |-> em, path |-> <<>>, pathExpr |-> <<>>]
Issues(list) == [def |-> TRUE, list |-> list]
\* The `undefined` a first-error procedure returns when nothing was emitted.
UndefinedIssues == [def |-> FALSE, list |-> <<>>]
emptyIssues == Issues(<<>>)

\* firstErrorValidator(data): `let issues; <code> return issues;`
firstErrorValidator(s, d) ==
    LET r == codeGenDiag(s, d, RootMode("return"))
    IN  IF r.ret THEN Issues(r.rv)
        ELSE IF r.out = <<>> THEN UndefinedIssues ELSE Issues(r.out)

\* Mutant of issueValidator: the all-errors branch compiles a first-error
\* procedure.
issueValidator_FirstErrorOnly(s, d) == firstErrorValidator(s, d)

\* issueValidator(data): `let issues; <code> return issues || [];`
issueValidator(s, d) ==
    LET r == codeGenDiag(s, d, RootMode("push"))
    IN  IF r.ret THEN Issues(r.rv) ELSE Issues(r.out)

(***************************************************************************)
(* The schemas compiled and the data validated.                            *)
(***************************************************************************)
MaxArrayLen == 2

TString == SType("String")
TNumber == SType("Number")
TBoolean == SType("Boolean")
\* /^\w+$/ and the texts of the model's values it matches.
WordTexts == {"undefined", "null", "NaN", "true", "false", "1", "a", "b"}
Word == SPattern("/^\\w+$/", WordTexts)

LeafSchemas == {TString, TNumber, TBoolean, SLit(VStr("a")), SLit(VNum(1)), SNull, Word}
BaseSchemas == {TString, TNumber, SLit(VStr("a")), SNull}
PairSchemas == {TString, TNumber}

\* Constructors and a symbol used as schemas.
ClassSchemas == {SClass("Error"), SClass("TypeError"), SClass("Date"), SSymbol("s")}

Props1(x) == [a |-> x]
Props2(x, y) == [a |-> x, b |-> y]

ObjectSchemas ==
    {SObj(<<"a">>, Props1(x)) : x \in BaseSchemas}
    \cup {SObj(<<"a", "b">>, Props2(x, y)) : x \in BaseSchemas, y \in PairSchemas}
ArraySchemas ==
    {SArr(<<x>>) : x \in BaseSchemas}
    \cup {SArr(<<x, y>>) : x \in PairSchemas, y \in PairSchemas}
    \cup {SArr(<<TNumber, SOptional(TNumber)>>)}
TupleSchemas ==
    {STuple(<<x>>) : x \in PairSchemas}
    \cup {STuple(<<x, y>>) : x \in PairSchemas, y \in PairSchemas}
    \cup {STuple(<<TNumber, SNull>>)}
\* $keys, $values and $strict on an object schema.
MarkedSchemas ==
    {SObjFull(<<>>, <<>>, <<SLit(VStr("a"))>>, <<>>, FALSE)}
    \cup {SObjFull(<<>>, <<>>, <<>>, <<x>>, FALSE) : x \in PairSchemas}
    \cup {SObjFull(<<"a">>, Props1(x), <<>>, <<>>, TRUE) : x \in PairSchemas}
    \cup {SObjFull(<<"a">>, Props1(TNumber), <<x>>, <<TNumber>>, TRUE) :
              x \in {TString, SLit(VStr("a"))}}
Variant(lit, x) == SObj(<<"a", "b">>, Props2(SLit(lit), x))
DiscriminatedSchemas ==
    {SDiscriminated(<<Variant(VStr("a"), x), Variant(VNum(1), x)>>, "a") : x \in PairSchemas}
    \cup {SDiscriminated(<<Variant(VStr("a"), TNumber), Variant(VStr("a"), TString)>>, "a"),
          SDiscriminated(<<Variant(VStr("a"), TNumber), Variant(VNaN, TNumber)>>, "a")}
\* Children of or(): leaves and one schema of each structured kind.
OrMembers ==
    BaseSchemas
    \cup {SObj(<<"a">>, Props1(TNumber)), SArr(<<TNumber>>), STuple(<<TNumber>>)}
OrSchemas ==
    {SOr(<<x>>) : x \in PairSchemas}
    \cup {SOr(<<x, y>>) : x \in OrMembers, y \in OrMembers}
    \cup {SOr(<<x, SNull>>) : x \in DiscriminatedSchemas}
AndMembers ==
    {TString, TNumber, SLit(VStr("a")), SObj(<<"a">>, Props1(TNumber)),
     SObj(<<"b">>, [b |-> TString]), SOr(<<TNumber, TString>>)}
AndSchemas ==
    {SAnd(<<x>>) : x \in PairSchemas}
    \cup {SAnd(<<x, y>>) : x \in AndMembers, y \in AndMembers}
\* A combinator or a structured schema below an object or array schema.
NestedSchemas ==
    {SObj(<<"a", "b">>, Props2(SOr(<<x, y>>), z)) :
        x \in PairSchemas, y \in PairSchemas, z \in PairSchemas}
    \cup {SObj(<<"a">>, Props1(SArr(<<SObj(<<"b">>, [b |-> x])>>))) : x \in PairSchemas}
    \cup {SArr(<<SArr(<<x>>)>>) : x \in PairSchemas}
    \cup {SObjFull(<<>>, <<>>, <<>>, <<SObj(<<"b">>, [b |-> x])>>, FALSE) : x \in PairSchemas}
\* One declared property of each kind of child schema.
PropertySchemas ==
    {SObj(<<"a">>, Props1(x)) :
        x \in {Word, SObj(<<"b">>, [b |-> TString]), SArr(<<TNumber>>),
               SOptional(TNumber), SOptional(SObj(<<"b">>, [b |-> TString]))}}
OptionalSchemas ==
    {SOptional(x) : x \in LeafSchemas
        \cup {SObj(<<"a">>, Props1(TNumber)), SArr(<<TNumber>>),
              SOr(<<TNumber, TString>>), SOr(<<SObj(<<"a">>, Props1(TNumber)), TString>>)}}

Schemas ==
    LeafSchemas \cup ClassSchemas \cup ObjectSchemas \cup ArraySchemas \cup TupleSchemas
    \cup MarkedSchemas \cup DiscriminatedSchemas \cup OrSchemas \cup AndSchemas
    \cup NestedSchemas \cup PropertySchemas \cup OptionalSchemas

Primitives ==
    {VNull, VUndef, VNaN, VNum(1), VStr("a"), VStr("b"), VBool(TRUE), VErr("boom")}
Elements == {VNum(1), VStr("a")}

SeqsUpTo(S, n) == UNION {[1..m -> S] : m \in 0..n}

ArrayValues == {VArr(items) : items \in SeqsUpTo(Elements, MaxArrayLen)}
PlainObjects ==
    {VObj(<<>>, <<>>), VObj(<<"a">>, Props1(VNull)),
     VObj(<<"a", "c">>, [a |-> VNum(1), c |-> VNum(1)])}
    \cup {VObj(<<"a">>, Props1(x)) : x \in Elements}
    \cup {VObj(<<"a", "b">>, Props2(x, y)) : x \in Elements, y \in Elements}
InnerObjects == {VObj(<<"b">>, [b |-> x]) : x \in Elements}
NestedValues ==
    {VObj(<<"a">>, Props1(VArr(items))) :
        items \in SeqsUpTo(InnerObjects, MaxArrayLen) \ {<<>>}}
    \cup {VArr(<<VArr(items)>>) : items \in SeqsUpTo(Elements, 1)}
    \cup {VObj(<<"a">>, Props1(x)) : x \in InnerObjects}

Dates == {VDate(TRUE), VDate(FALSE)}
DataValues ==
    Primitives \cup ArrayValues \cup PlainObjects \cup NestedValues \cup Dates
    \cup {VObj(<<"a">>, Props1(x)) : x \in Dates \cup {VNaN}}
    \cup {VArr(<<VNum(1), x, VNum(1)>>) : x \in Elements}

(***************************************************************************)
(* The validator: one compile call and the invocations of what it returns. *)
(***************************************************************************)
Init ==
    /\ schema = NoSchema
    /\ thrown = NoError
    /\ call = NoCall
    /\ returned = Unset
    /\ config = Unset
    /\ allErrors = FALSE
    /\ issues = emptyIssues
    /\ data = VUndef
    /\ result = "none"
    /\ validators = <<>>
    /\ lists = <<emptyIssues.list>>
    /\ ran = <<>>
    /\ registry = <<>>
    /\ lookupMap = {}

\* compile(schema, options): codeGen may throw, and then no validator is
\* returned; otherwise the validator starts with issues = emptyIssues.
compile(s, ae) ==
    /\ schema = NoSchema
    /\ call' = [fn |-> "compile", schema |-> s]
    /\ thrown' = codeGenError(s)
    /\ IF codeGenError(s) = NoError
       THEN schema' = s /\ returned' = Validator
       ELSE schema' = NoSchema /\ returned' = Unset
    /\ allErrors' = ae
    /\ issues' = emptyIssues
    /\ UNCHANGED <<config, data, result>>
    /\ UNCHANGED <<sessionVars, contextVars>>

\* validator(data): the arrow function compile returns.
validator(d) ==
    LET fast == fastValidator(schema, d)
    IN  /\ schema # NoSchema
        /\ data' = d
        /\ result' = CASE fast = "ok" -> "true"
                       [] fast = "fail" -> "false"
                       [] OTHER -> "throw"
        /\ issues' = IF fast # "fail" THEN issues
                     ELSE IF allErrors THEN issueValidator(schema, d)
                     ELSE firstErrorValidator(schema, d)
        /\ UNCHANGED <<schema, thrown, call, returned, config, allErrors>>
        /\ UNCHANGED <<sessionVars, contextVars>>

Next ==
    \/ \E s \in Schemas, ae \in BOOLEAN : compile(s, ae)
    \/ \E d \in DataValues : validator(d)

Spec == Init /\ [][Next]_vars

(***************************************************************************)
(* The schema operators: construction, then compile of what was built.     *)
(***************************************************************************)
\* Mutant of noSchemas: the operators accept an empty list.
noSchemas_Accepted(schemas) == FALSE

\* schemas.length === 0
noSchemas(schemas) == Len(schemas) = 0

\* or / and / tuple: `if (schemas.length === 0) throw new TypeError(...)`,
\* else `new Ctor(schemas)`.
Operator(fn, schemas, message) ==
    /\ call' = [fn |-> fn, args |-> schemas]
    /\ IF noSchemas(schemas)
       THEN thrown' = TypeErrorOf(message) /\ returned' = Unset
       ELSE thrown' = NoError /\ returned' = [k |-> fn, schemas |-> schemas]
    /\ UNCHANGED <<schema, config, allErrors, issues, data, result>>
    /\ UNCHANGED <<sessionVars, contextVars>>

or(schemas) == Operator("or", schemas, "Operator requires at least one schema")
and(schemas) == Operator("and", schemas, "Operator requires at least one schema")
tuple(schemas) == Operator("tuple", schemas, "Operator requires at least one schema")

\* optional(schema): new OptionalCtor(schema), whose schemas is [schema].
optional(s) ==
    /\ call' = [fn |-> "optional", args |-> <<s>>]
    /\ thrown' = NoError
    /\ returned' = SOptional(s)
    /\ UNCHANGED <<schema, config, allErrors, issues, data, result>>
    /\ UNCHANGED <<sessionVars, contextVars>>

\* discriminated(schemas, key): only the empty list is refused here.
discriminated(schemas, key) ==
    /\ call' = [fn |-> "discriminated", args |-> schemas, key |-> key]
    /\ IF noSchemas(schemas)
       THEN /\ thrown' = TypeErrorOf("discriminated requires at least one schema")
            /\ returned' = Unset
       ELSE /\ thrown' = NoError
            /\ returned' = SDiscriminated(schemas, key)
    /\ UNCHANGED <<schema, config, allErrors, issues, data, result>>
    /\ UNCHANGED <<sessionVars, contextVars>>

MaxSchemas == 2
BuildChildren == {TString, TNumber, SNull, SLit(VStr("a"))}
\* Variants: well formed, without the key "a", with a type reference at the
\* key, and a schema that is no object.
BuildVariants ==
    {Variant(VStr("a"), TNumber), SObj(<<"b">>, [b |-> TNumber]),
     SObj(<<"a">>, Props1(TString)), TString}

isTagged(v) == v.k \in {"or", "and", "optional", "tuple", "discriminated"}

BuildNext ==
    \/ \E schemas \in SeqsUpTo(BuildChildren, MaxSchemas) : or(schemas)
    \/ \E schemas \in SeqsUpTo(BuildChildren, MaxSchemas) : and(schemas)
    \/ \E schemas \in SeqsUpTo(BuildChildren, MaxSchemas) : tuple(schemas)
    \/ \E s \in BuildChildren : optional(s)
    \/ \E schemas \in SeqsUpTo(BuildVariants, MaxSchemas) : discriminated(schemas, "a")
    \/ \E ae \in BOOLEAN : isTagged(returned) /\ compile(returned, ae)

BuildSpec == Init /\ [][BuildNext]_vars

(***************************************************************************)
(* ascertain and createValidator.                                          *)
(***************************************************************************)
\* The TypeError the engine raises for a property read of null or undefined,
\* or of an issues value that is undefined or empty.
EngineError == TypeErrorOf("Cannot read properties of null or undefined")

\* new TypeError(issues[0].message, { cause: { issues } })
ValidationError(list) ==
    [name |-> "TypeError", message |-> list[1].message, cause |-> [issues |-> list]]

\* What ascertain(schema, data) throws: `const validator = compile(schema);
\* if (!validator(data)) throw new TypeError(...)`.
ascertainError(s, d) ==
    LET fast == fastValidator(s, d)
        found == firstErrorValidator(s, d)
    IN  IF codeGenError(s) # NoError THEN codeGenError(s)
        ELSE IF fast = "ok" THEN NoError
        ELSE IF fast = "throw" THEN EngineError
        ELSE IF ~found.def \/ found.list = <<>> THEN EngineError
        ELSE ValidationError(found.list)

ascertain(s, d) ==
    /\ call' = [fn |-> "ascertain", schema |-> s, data |-> d]
    /\ thrown' = ascertainError(s, d)
    /\ returned' = IF ascertainError(s, d) = NoError THEN VUndef ELSE Unset
    /\ UNCHANGED <<schema, config, allErrors, issues, data, result>>
    /\ UNCHANGED <<sessionVars, contextVars>>

\* Mutant of ExtractShape: the validated shape is a copy, another object.
ExtractShape_Copy(c) == [c EXCEPT !.ref = c.ref + 1]

\* `config as ExtractShape<C, S>`: a type assertion, the object itself.
ExtractShape(c) == c

\* createValidator(config): the returned function closes over config.
createValidator(c) ==
    /\ config = Unset
    /\ config' = c
    /\ call' = [fn |-> "createValidator"]
    /\ thrown' = NoError
    /\ returned' = [k |-> "function"]
    /\ UNCHANGED <<schema, allErrors, issues, data, result>>
    /\ UNCHANGED <<sessionVars, contextVars>>

\* The function createValidator returned, called with a partial schema:
\* `ascertain(schema, config); return config as ExtractShape<C, S>;`
validateConfig(s) ==
    /\ config # Unset
    /\ call' = [fn |-> "validateConfig", schema |-> s]
    /\ thrown' = ascertainError(s, config.value)
    /\ returned' = IF ascertainError(s, config.value) = NoError
                   THEN ExtractShape(config) ELSE Unset
    /\ UNCHANGED <<schema, config, allErrors, issues, data, result>>
    /\ UNCHANGED <<sessionVars, contextVars>>

ApiSchemas ==
    {TNumber, SLit(VStr("a")), SNull, SOptional(TNumber), STuple(<<TNumber>>),
     SArr(<<TNumber>>), SObj(<<"a">>, Props1(TNumber)),
     SObj(<<"a", "b">>, Props2(TNumber, TString)),
     SObj(<<"a", "b">>, Props2(SOr(<<TString, TNumber>>), TString)),
     SOr(<<TNumber, TString>>),
     SOr(<<SNull, SObj(<<"a">>, Props1(TNumber))>>),
     SOr(<<SObj(<<"a">>, Props1(TNumber)), SNull>>)}
ApiObjects ==
    {VObj(<<>>, <<>>), VObj(<<"a">>, Props1(VNum(1))), VObj(<<"a">>, Props1(VStr("a"))),
     VObj(<<"a", "b">>, Props2(VNum(1), VStr("a")))}
ApiData ==
    {VNull, VUndef, VNum(1), VStr("a"), VErr("boom"),
     VArr(<<>>), VArr(<<VNum(1)>>), VArr(<<VStr("a")>>)} \cup ApiObjects
\* The config objects: one object identity each.
ApiConfigs == {[ref |-> 1, value |-> v] : v \in ApiObjects}

ApiNext ==
    \/ \E s \in ApiSchemas, d \in ApiData : ascertain(s, d)
    \/ \E c \in ApiConfigs : createValidator(c)
    \/ \E s \in ApiSchemas : validateConfig(s)

ApiSpec == Init /\ [][ApiNext]_vars

(***************************************************************************)
(* String literals as text.  Above, a literal's text is inert: the strings *)
(* there have no quote, backslash, backtick or `$`.  Here a string is the  *)
(* sequence of its characters, and the code generated for a literal schema *)
(* is read as JavaScript reads it: toLiteral(schema) is pasted once as an  *)
(* expression (`value !== "..."`, `const val = "..."`) and once inside the *)
(* template literal of the message, `Invalid value ${String(value)},       *)
(* expected <toLiteral(schema)>`.                                          *)
(***************************************************************************)
Quote == "\""
Backslash == "\\"
\* The backtick character (written out: a string cannot hold it).
Backtick == "backtick"
Alphabet == {"a", "$", "{", "}", Backtick, Quote, Backslash}

RECURSIVE Escaped(_)
\* The body of JSON.stringify(string): quote and backslash are escaped.
Escaped(chars) ==
    IF chars = <<>> THEN <<>>
    ELSE (IF Head(chars) \in {Quote, Backslash} THEN <<Backslash, Head(chars)>>
          ELSE <<Head(chars)>>) \o Escaped(Tail(chars))

\* toLiteral(schema) of a string schema: JSON.stringify(schema).
toLiteralText(chars) == <<Quote>> \o Escaped(chars) \o <<Quote>>

RECURSIVE Unescaped(_)
Unescaped(text) ==
    IF text = <<>> THEN <<>>
    ELSE IF Head(text) = Backslash
    THEN <<text[2]>> \o Unescaped(SubSeq(text, 3, Len(text)))
    ELSE <<Head(text)>> \o Unescaped(Tail(text))

\* The string a double-quoted string literal of the generated code denotes.
StringLiteralValue(text) == Unescaped(SubSeq(text, 2, Len(text) - 1))

SyntaxError == [name |-> "SyntaxError"]

RECURSIVE Template(_, _, _, _)
\* Reading `text` where the generator pasted it into a template literal,
\* its closing backtick following.  inside: the reader is within a template;
\* value: the characters read as template text; runtime: evaluating the
\* expression will throw (a substitution `${a}` of an unbound identifier, or
\* a second template, which makes the first a tag that is no function).
\* Outside a template only another template may follow; a substitution
\* must be a closed, non-empty identifier.
Template(text, inside, value, runtime) ==
    IF text = <<>>
    THEN IF inside
         THEN [kind |-> IF runtime THEN "RuntimeError" ELSE "text", value |-> value]
         ELSE [kind |-> "SyntaxError", value |-> <<>>]
    ELSE IF ~inside
    THEN IF Head(text) = Backtick THEN Template(Tail(text), TRUE, value, TRUE)
         ELSE [kind |-> "SyntaxError", value |-> <<>>]
    ELSE IF Head(text) = Backslash
    THEN Template(SubSeq(text, 3, Len(text)), TRUE, Append(value, text[2]), runtime)
    ELSE IF Head(text) = Backtick
    THEN Template(Tail(text), FALSE, value, runtime)
    ELSE IF Head(text) = "$" /\ Len(text) >= 2 /\ text[2] = "{"
    THEN LET rest == SubSeq(text, 3, Len(text))
             close == {i \in 1..Len(rest) : rest[i] = "}"}
             expr == SubSeq(rest, 1, Min(close) - 1)
         IN  IF close = {} THEN [kind |-> "SyntaxError", value |-> <<>>]
             ELSE IF expr = <<>> \/ \E i \in 1..Len(expr) : expr[i] \notin {"a", "$"}
             THEN [kind |-> "SyntaxError", value |-> <<>>]
             ELSE Template(SubSeq(rest, Min(close) + 1, Len(rest)), TRUE, value, TRUE)
    ELSE Template(Tail(text), TRUE, Append(value, Head(text)), runtime)

\* The expected-part of a literal's message, as the generated template
\* literal yields it.
ExpectedText(chars) == Template(toLiteralText(chars), TRUE, <<>>, FALSE)

\* The string literals of a schema that is a literal or an or() of literals.
Literals(s) ==
    CASE s.k = "or" -> [i \in 1..Len(s.schemas) |-> s.schemas[i].v.s]
      [] s.k = "lit" -> <<s.v.s>>
      [] OTHER -> <<>>

\* new Function(...) of the diagnostic code: a SyntaxError when a message
\* template does not parse.
literalError(s) ==
    IF \E i \in 1..Len(Literals(s)) : ExpectedText(Literals(s)[i]).kind = "SyntaxError"
    THEN SyntaxError ELSE NoError

\* compile of a string literal, alone or as the first child of or().
compileLiteral(chars, inOr, ae) ==
    LET s == IF inOr THEN SOr(<<SLit(VStr(chars)), SLit(VStr(<<"a", "a">>))>>)
             ELSE SLit(VStr(chars))
    IN  /\ schema = NoSchema
        /\ call = NoCall
        /\ call' = [fn |-> "compile", schema |-> s]
        /\ thrown' = literalError(s)
        /\ IF literalError(s) = NoError
           THEN schema' = s /\ returned' = Validator
           ELSE schema' = NoSchema /\ returned' = Unset
        /\ allErrors' = ae
        /\ issues' = emptyIssues
        /\ UNCHANGED <<config, data, result>>
        /\ UNCHANGED <<sessionVars, contextVars>>

\* The fast test of one literal: typeof value !== 'string' || value !== "...".
literalFast(chars, d) == d.t = "string" /\ d.s = StringLiteralValue(toLiteralText(chars))

\* The diagnostic code of one literal, for a value its fast test rejects:
\* the issue, or "throw" when building the message throws.
literalDiag(chars, d) ==
    IF IsError(d) THEN [kind |-> "issue", message |-> <<d.msg>>]
    ELSE IF TypeOf(d) # "string"
    THEN [kind |-> "issue", message |-> <<"Invalid type ", TypeOf(d), ", expected string">>]
    ELSE IF ExpectedText(chars).kind = "RuntimeError" THEN [kind |-> "throw"]
    ELSE [kind |-> "issue",
          message |-> <<"Invalid value ">> \o d.s \o <<", expected ">>
                      \o ExpectedText(chars).value]

\* The validator of such a schema.  In first-error mode the first branch's
\* emit returns; in all-errors mode every branch is run.
validateLiteral(d) ==
    LET lits == Literals(schema)
        diags == [i \in 1..Len(lits) |-> literalDiag(lits[i], d)]
        run == IF allErrors THEN diags ELSE <<diags[1]>>
        throws == \E i \in 1..Len(run) : run[i].kind = "throw"
    IN  /\ schema # NoSchema
        /\ data' = d
        /\ IF \E i \in 1..Len(lits) : literalFast(lits[i], d)
           THEN result' = "true" /\ issues' = issues
           ELSE IF throws
           THEN result' = "throw" /\ issues' = issues
           ELSE /\ result' = "false"
                /\ issues' = Issues([i \in 1..Len(run) |->
                                  [message |-> run[i].message, path |-> <<>>]])
        /\ UNCHANGED <<schema, thrown, call, returned, config, allErrors>>
        /\ UNCHANGED <<sessionVars, contextVars>>

MaxLiteralLen == 4
LiteralStrings == SeqsUpTo(Alphabet, MaxLiteralLen)
\* The data a literal's validator is given: the literal itself, other
\* strings and values that are no strings.
LiteralData(s) ==
    {VStr(Literals(s)[i]) : i \in 1..Len(Literals(s))}
    \cup {VStr(<<>>), VStr(<<"a">>), VNum(1), VErr("boom"), VNull}

LiteralNext ==
    \/ /\ call = NoCall
       /\ \E chars \in LiteralStrings, inOr \in BOOLEAN, ae \in BOOLEAN :
              compileLiteral(chars, inOr, ae)
    \/ /\ schema # NoSchema
       /\ \E d \in LiteralData(schema) : validateLiteral(d)

LiteralSpec == Init /\ [][LiteralNext]_vars

(***************************************************************************)
(* A session: one schema object compiled several times, in either mode,    *)
(* and the validators invoked in any order.  An issue array is an object:  *)
(* lists holds the arrays allocated so far and validator.issues is a       *)
(* reference into it.  Reference 1 is emptyIssues, the one array every     *)
(* validator starts with.                                                  *)
(***************************************************************************)
MaxValidators == 2
MaxLists == 4
EmptyIssuesRef == 1
\* validator.issues after firstErrorValidator returned undefined.
UndefinedRef == 0

\* compile(schema, options) of the session's schema object: a new validator
\* whose issues is emptyIssues.  codeGen only reads the schema.
compileSame(s, ae) ==
    /\ Len(validators) < MaxValidators
    /\ validators # <<>> => s = schema
    /\ codeGenError(s) = NoError
    /\ schema' = s
    /\ validators' = Append(validators, [allErrors |-> ae, issues |-> EmptyIssuesRef])
    /\ call' = [fn |-> "compile", schema |-> s]
    /\ thrown' = NoError
    /\ returned' = Validator
    /\ UNCHANGED <<config, allErrors, issues, data, result, lists, ran, contextVars>>

\* The diagnostic procedure of a validator.
diagnostic(ae) == IF ae THEN "issueValidator" ELSE "firstErrorValidator"

\* Mutant of procedures: the diagnostic procedure runs on every call.
procedures_Both(fast, ae) == <<"fastValidator", diagnostic(ae)>>

\* The procedures one invocation runs: `if (fastValidator(data)) return true;`
\* and then the assignment from the diagnostic procedure.
procedures(fast, ae) ==
    IF fast = "fail" THEN <<"fastValidator", diagnostic(ae)>> ELSE <<"fastValidator">>

\* Mutant of built: the procedure pushes onto the array issues refers to.
built_Appended(heap, ref, found) ==
    IF ref \in DOMAIN heap /\ ref # EmptyIssuesRef
    THEN [heap EXCEPT ![ref] = heap[ref] \o found.list]
    ELSE Append(heap, found.list)

\* The arrays after a diagnostic procedure returned found: emit builds a new
\* array (`issues = [{...}]`, `issues = []`, `issues || []`).
built(heap, ref, found) == IF found.def THEN Append(heap, found.list) ELSE heap

\* Mutant of invoke: the all-errors validator returns whether the diagnostic
\* procedure found nothing.
invoke_IssuesDecide(i, d) ==
    LET ae == validators[i].allErrors
        found == IF ae THEN issueValidator(schema, d) ELSE firstErrorValidator(schema, d)
        fast == IF ae THEN (IF found.list = <<>> THEN "ok" ELSE "fail")
                ELSE fastValidator(schema, d)
        after == built(lists, validators[i].issues, found)
    IN  /\ Len(lists) < MaxLists
        /\ call' = [fn |-> "validator", index |-> i]
        /\ data' = d
        /\ result' = CASE fast = "ok" -> "true"
                       [] fast = "fail" -> "false"
                       [] OTHER -> "throw"
        /\ ran' = procedures(fast, ae)
        /\ IF fast # "fail" THEN UNCHANGED <<lists, validators>>
           ELSE /\ lists' = after
                /\ validators' = [validators EXCEPT ![i].issues =
                                     IF found.def THEN Len(after) ELSE UndefinedRef]
        /\ UNCHANGED <<schema, thrown, returned, config, allErrors, issues, contextVars>>

\* validators[i](data): the arrow function compile returned.
invoke(i, d) ==
    LET ae == validators[i].allErrors
        fast == fastValidator(schema, d)
        found == IF ae THEN issueValidator(schema, d) ELSE firstErrorValidator(schema, d)
        after == built(lists, validators[i].issues, found)
    IN  /\ Len(lists) < MaxLists
        /\ call' = [fn |-> "validator", index |-> i]
        /\ data' = d
        /\ result' = CASE fast = "ok" -> "true"
                       [] fast = "fail" -> "false"
                       [] OTHER -> "throw"
        /\ ran' = procedures(fast, ae)
        /\ IF fast # "fail" THEN UNCHANGED <<lists, validators>>
           ELSE /\ lists' = after
                /\ validators' = [validators EXCEPT ![i].issues =
                                     IF found.def THEN Len(after) ELSE UndefinedRef]
        /\ UNCHANGED <<schema, thrown, returned, config, allErrors, issues, contextVars>>

SessionSchemas ==
    {TNumber, SOptional(TNumber), SOr(<<TNumber, TString>>),
     SOr(<<SObj(<<"a">>, Props1(TNumber)), SNull>>),
     SObj(<<"a", "b">>, Props2(TNumber, TString)), SArr(<<TNumber>>)}
SessionData ==
    {VNum(1), VStr("a"), VNull, VObj(<<>>, <<>>), VArr(<<VStr("a"), VStr("a")>>)}

SessionNext ==
    \/ \E s \in SessionSchemas, ae \in BOOLEAN : compileSame(s, ae)
    \/ \E i \in DOMAIN validators, d \in SessionData : invoke(i, d)

SessionSpec == Init /\ [][SessionNext]_vars

(***************************************************************************)
(* The as.* helpers.  A string is the sequence of its characters, and      *)
(* Undefined is the missing argument.  A number is what IEEE arithmetic    *)
(* yields: NaN, an infinity or a finite value [neg, mant, exp] that stands *)
(* for (-1)^neg * mant * 10^exp with mant free of trailing zeros.          *)
(***************************************************************************)
Undefined == [t |-> "undefined"]
Text(chars) == [t |-> "string", chars |-> chars]
NaN == [t |-> "NaN"]
Infinite(neg) == [t |-> "Infinity", neg |-> neg]

DecimalDigits == <<"0", "1", "2", "3", "4", "5", "6", "7", "8", "9">>
HexDigits == DecimalDigits \o <<"a", "b", "c", "d", "e", "f">>
UpperHexDigits == DecimalDigits \o <<"A", "B", "C", "D", "E", "F">>

\* The value of a digit in a radix, or -1 when c is no digit of that radix.
digitValue(c, radix) ==
    LET at == {i \in 1..radix : HexDigits[i] = c \/ UpperHexDigits[i] = c}
    IN  IF at = {} THEN -1 ELSE Min(at) - 1

isDigits(chars, radix) ==
    /\ chars # <<>>
    /\ \A i \in 1..Len(chars) : digitValue(chars[i], radix) >= 0

RECURSIVE digitsValue(_, _)
\* The integer a run of digits denotes.
digitsValue(chars, radix) ==
    IF chars = <<>> THEN 0
    ELSE digitsValue(SubSeq(chars, 1, Len(chars) - 1), radix) * radix
         + digitValue(chars[Len(chars)], radix)

RECURSIVE normalize(_, _, _)
\* neg, mant and exp as one finite number.
normalize(neg, mant, exp) ==
    IF mant = 0 THEN [t |-> "number", neg |-> neg, mant |-> 0, exp |-> 0]
    ELSE IF mant % 10 = 0 THEN normalize(neg, mant \div 10, exp + 1)
    ELSE [t |-> "number", neg |-> neg, mant |-> mant, exp |-> exp]

RECURSIVE Power10(_)
Power10(n) == IF n = 0 THEN 1 ELSE 10 * Power10(n - 1)

RECURSIVE digitCount(_)
digitCount(n) == IF n < 10 THEN 1 ELSE 1 + digitCount(n \div 10)

\* The largest finite double is 1.797...e308: a greater magnitude is an
\* infinity.  (Magnitudes between 1.7e308 and 1.8e308 are taken as finite.)
MaxExponent == 309
overflows(mant, exp) ==
    /\ mant # 0
    /\ \/ digitCount(mant) + exp > MaxExponent
       \/ digitCount(mant) + exp = MaxExponent /\ mant * 10 >= 18 * Power10(digitCount(mant))

\* -x.
negate(x) ==
    CASE x.t = "number" -> [x EXCEPT !.neg = ~x.neg]
      [] x.t = "Infinity" -> [x EXCEPT !.neg = ~x.neg]
      [] OTHER -> x

RECURSIVE trimStart(_)
trimStart(chars) ==
    IF chars # <<>> /\ Head(chars) = " " THEN trimStart(Tail(chars)) ELSE chars
RECURSIVE trimEnd(_)
trimEnd(chars) ==
    IF chars # <<>> /\ chars[Len(chars)] = " "
    THEN trimEnd(SubSeq(chars, 1, Len(chars) - 1)) ELSE chars
\* value.trim()
trim(chars) == trimEnd(trimStart(chars))

\* The first position of one of the characters cs in chars, or 0.
indexOf(chars, cs) ==
    LET at == {i \in 1..Len(chars) : chars[i] \in cs}
    IN  IF at = {} THEN 0 ELSE Min(at)

\* An unsigned decimal literal: digits, an optional point and an optional
\* exponent, with at least one digit before the exponent.
decimalLiteral(chars, neg) ==
    LET e == indexOf(chars, {"e", "E"})
        mantissa == IF e = 0 THEN chars ELSE SubSeq(chars, 1, e - 1)
        exponent == IF e = 0 THEN <<>> ELSE SubSeq(chars, e + 1, Len(chars))
        expNeg == exponent # <<>> /\ Head(exponent) = "-"
        expDigits == IF exponent # <<>> /\ Head(exponent) \in {"+", "-"}
                     THEN Tail(exponent) ELSE exponent
        dot == indexOf(mantissa, {"."})
        int == IF dot = 0 THEN mantissa ELSE SubSeq(mantissa, 1, dot - 1)
        frac == IF dot = 0 THEN <<>> ELSE SubSeq(mantissa, dot + 1, Len(mantissa))
        wellFormed ==
            /\ int \o frac # <<>>
            /\ \A i \in 1..Len(int \o frac) : digitValue((int \o frac)[i], 10) >= 0
            /\ e # 0 => isDigits(expDigits, 10)
        mant == digitsValue(int \o frac, 10)
        exp == (IF e = 0 THEN 0
                ELSE IF expNeg THEN 0 - digitsValue(expDigits, 10)
                ELSE digitsValue(expDigits, 10)) - Len(frac)
    IN  IF ~wellFormed THEN NaN
        ELSE IF overflows(mant, exp) THEN Infinite(neg)
        ELSE normalize(neg, mant, exp)

\* Number(string): white space is trimmed and the empty string is 0; then
\* an unsigned 0x, 0o or 0b integer, or a signed decimal literal or Infinity.
Number(chars) ==
    LET t == trim(chars)
        radix == IF Len(t) < 2 \/ t[1] # "0" THEN 0
                 ELSE CASE t[2] \in {"x", "X"} -> 16
                        [] t[2] \in {"o", "O"} -> 8
                        [] t[2] \in {"b", "B"} -> 2
                        [] OTHER -> 0
        signed == t # <<>> /\ Head(t) \in {"+", "-"}
        neg == t # <<>> /\ Head(t) = "-"
        body == IF signed THEN Tail(t) ELSE t
    IN  IF t = <<>> THEN normalize(FALSE, 0, 0)
        ELSE IF radix # 0
        THEN IF isDigits(SubSeq(t, 3, Len(t)), radix)
             THEN normalize(FALSE, digitsValue(SubSeq(t, 3, Len(t)), radix), 0)
             ELSE NaN
        ELSE IF body = <<"I", "n", "f", "i", "n", "i", "t", "y">> THEN Infinite(neg)
        ELSE decimalLiteral(body, neg)

\* asError(message): a TypeError, returned and not thrown.
asError(message) == VErr(message)

\* as.string(value)
asStringResult(value) ==
    IF value.t = "string" THEN value
    ELSE asError(<<"Invalid value \"", value, "\", expected a string">>)

\* value.charCodeAt(i) of a string, as the character (NaN beyond the end).
charAt(chars, i) == IF i + 1 \in DOMAIN chars THEN chars[i + 1] ELSE "NaN"

\* as.number(value)
asNumberResult(value) ==
    IF value.t # "string"
    THEN asError(<<"Invalid value ", value, ", expected a valid number">>)
    ELSE LET chars == value.chars
             start == IF charAt(chars, 0) \in {"-", "+"} THEN 1 ELSE 0
             c0 == charAt(chars, start)
             c1 == charAt(chars, start + 1)
         IN  IF c0 = "0" /\ c1 \in {"x", "X", "o", "O", "b", "B"}
             THEN LET parsed == Number(IF start = 1 THEN Tail(chars) ELSE chars)
                  IN  IF parsed = NaN
                      THEN asError(<<"Invalid value ", value, ", expected a valid number">>)
                      ELSE IF charAt(chars, 0) = "-" THEN negate(parsed) ELSE parsed
             ELSE LET parsed == IF trim(chars) # <<>> THEN Number(chars) ELSE NaN
                  IN  IF parsed = NaN
                      THEN asError(<<"Invalid value ", value, ", expected a valid number">>)
                      ELSE parsed

\* The texts as.number is given, each also with a sign or a blank around it.
NumberBodies ==
    {<<"0">>,
     <<"1">>,
     <<"4", "2">>,
     <<"3", ".", "1", "4">>,
     <<"1", "e", "1", "0">>,
     <<"1", ".", "5", "e", "2">>,
     <<"1", ".">>,
     <<".", "5">>,
     <<".">>,
     <<"1", "e">>,
     <<"e", "1">>,
     <<"1", "e", "+", "2">>,
     <<"1", "e", "9", "9", "9">>,
     <<"I", "n", "f", "i", "n", "i", "t", "y">>,
     <<"i", "n", "f", "i", "n", "i", "t", "y">>,
     <<"a", "b", "c">>,
     <<>>,
     <<"0", "x", "F", "F">>,
     <<"0", "x", "f", "f">>,
     <<"0", "X", "f", "F">>,
     <<"0", "x">>,
     <<"0", "x", "G", "G">>,
     <<"0", "o", "7", "7">>,
     <<"0", "O", "7">>,
     <<"0", "o", "9", "9">>,
     <<"0", "b", "1", "0", "1", "0">>,
     <<"0", "B", "1">>,
     <<"0", "b", "2", "2", "2">>,
     <<"0", "x", "1", "0">>,
     <<"0", "b">>,
     <<"1", " ", "1">>,
     <<"0", "x", "1", " ", "0">>,
     <<"N", "a", "N">>,
     <<"1", "2", "p", "x">>,
     <<"0", "e", "0">>,
     <<"0", "0">>}
NumberTexts ==
    {pre \o body \o post :
        pre \in {<<>>, <<"-">>, <<"+">>, <<" ">>}, body \in NumberBodies, post \in {<<>>, <<" ">>}}

\* A Date of a valid instant, named by the text it was parsed from.
DateOf(instant) == [t |-> "date", instant |-> instant]

\* Date.parse(value) of the host, on the texts of the model: the instant, or
\* NaN for a text that is no date (undefined reads as "undefined").
DateTexts == {<<"2", "0", "2", "4", "-", "1", "2", "-", "3", "1">>, <<"2", "0", "2", "4", "-", "1", "2", "-", "3", "1", "T", "0", "0", ":", "0", "0", ":", "0", "0", "Z">>}
DateParse(value) ==
    IF value.t = "string" /\ value.chars \in DateTexts THEN value.chars ELSE NaN

\* as.date(value)
asDateResult(value) ==
    LET parsed == DateParse(value)
    IN  IF parsed = NaN
        THEN asError(<<"Invalid value \"", value, "\", expected a valid date format">>)
        ELSE DateOf(parsed)

LowerLetters == <<"a", "b", "c", "d", "e", "f", "g", "h", "i", "j", "k", "l", "m",
                  "n", "o", "p", "q", "r", "s", "t", "u", "v", "w", "x", "y", "z">>
UpperLetters == <<"A", "B", "C", "D", "E", "F", "G", "H", "I", "J", "K", "L", "M",
                  "N", "O", "P", "Q", "R", "S", "T", "U", "V", "W", "X", "Y", "Z">>
\* The case folding of an /i pattern.
lowerCase(chars) ==
    [i \in 1..Len(chars) |->
        IF \E j \in 1..26 : UpperLetters[j] = chars[i]
        THEN LowerLetters[CHOOSE j \in 1..26 : UpperLetters[j] = chars[i]]
        ELSE chars[i]]

\* String(value) of an argument.
stringOf(value) == IF value.t = "string" THEN value.chars ELSE <<"u", "n", "d", "e", "f", "i", "n", "e", "d">>

TrueWords == {<<"1">>, <<"t", "r", "u", "e">>, <<"e", "n", "a", "b", "l", "e", "d">>}
FalseWords == {<<"0">>, <<"f", "a", "l", "s", "e">>, <<"d", "i", "s", "a", "b", "l", "e", "d">>}

\* as.boolean(value): /^(0|1|true|false|enabled|disabled)$/i and then
\* /^(1|true|enabled)$/i.
asBooleanResult(value) ==
    IF lowerCase(stringOf(value)) \in TrueWords \cup FalseWords
    THEN [t |-> "boolean", b |-> lowerCase(stringOf(value)) \in TrueWords]
    ELSE asError(<<"Invalid value ", value, ", expected a boolean like">>)

startsWith(chars, prefix) ==
    Len(prefix) <= Len(chars) /\ SubSeq(chars, 1, Len(prefix)) = prefix

RECURSIVE splitFrom(_, _, _)
\* The pieces of chars between the occurrences of a non-empty delimiter;
\* piece is the part of the current piece read so far.
splitFrom(chars, delimiter, piece) ==
    IF chars = <<>> THEN <<Text(piece)>>
    ELSE IF startsWith(chars, delimiter)
    THEN <<Text(piece)>>
         \o splitFrom(SubSeq(chars, Len(delimiter) + 1, Len(chars)), delimiter, <<>>)
    ELSE splitFrom(Tail(chars), delimiter, Append(piece, Head(chars)))

\* value.split(delimiter); the empty delimiter splits between characters.
split(chars, delimiter) ==
    IF delimiter = <<>> THEN [i \in 1..Len(chars) |-> Text(<<chars[i]>>)]
    ELSE splitFrom(chars, delimiter, <<>>)

\* as.array(value, delimiter)
asArrayResult(value, delimiter) ==
    IF value.t = "string" THEN [t |-> "array", items |-> split(value.chars, delimiter)]
    ELSE asError(<<"Invalid value ", value, ", expected an array">>)

\* Whether evaluating an expression raised an exception.
threw(outcome) == "name" \in DOMAIN outcome

\* JSON.parse(value) of the host, on the texts of the model: the texts that
\* are JSON and what they denote; every other text raises a SyntaxError.
JsonTexts == {<<"n", "u", "l", "l">>, <<"1">>, <<"\"", "a", "\"">>, <<"{", " ", "\"", "n", "u", "m", "b", "e", "r", "\"", ":", " ", "1", " ", "}">>, <<"[", "]">>}
JSONparse(chars) ==
    CASE chars = <<"n", "u", "l", "l">> -> [t |-> "null"]
      [] chars = <<"1">> -> normalize(FALSE, 1, 0)
      [] chars = <<"\"", "a", "\"">> -> Text(<<"a">>)
      [] chars = <<"{", " ", "\"", "n", "u", "m", "b", "e", "r", "\"", ":", " ", "1", " ", "}">> -> [t |-> "object", keys |-> <<"number">>,
                          vals |-> [number |-> normalize(FALSE, 1, 0)]]
      [] chars = <<"[", "]">> -> [t |-> "array", items |-> <<>>]
      [] OTHER -> SyntaxError

\* as.json(value): try { JSON.parse } catch { asError }.
asJsonResult(value) ==
    IF threw(JSONparse(stringOf(value)))
    THEN asError(<<"Invalid value ", value, ", expected a valid JSON string">>)
    ELSE JSONparse(stringOf(value))

Base64Alphabet ==
    {LowerLetters[i] : i \in 1..26} \cup {UpperLetters[i] : i \in 1..26}
    \cup {DecimalDigits[i] : i \in 1..10} \cup {"+", "/"}

\* The text a base64 string decodes to, for the encoded texts of the model
\* (complete groups only; utf-8 of ASCII is the text itself).
decodeGroups(chars) ==
    CASE chars = <<"d", "G", "V", "z", "d", "A">> -> <<"t", "e", "s", "t">>
      [] chars = <<"Y", "Q">> -> <<"a">>
      [] OTHER -> <<>>

\* Buffer.from(value, 'base64').toString('utf-8'): a value that is no string
\* raises a TypeError; decoding stops at the first character that is not of
\* the alphabet and never fails.
bufferDecode(value) ==
    IF value.t # "string" THEN TypeErrorOf("ERR_INVALID_ARG_TYPE")
    ELSE LET stop == indexOf(value.chars, {value.chars[i] : i \in 1..Len(value.chars)}
                                              \ Base64Alphabet)
         IN  Text(decodeGroups(IF stop = 0 THEN value.chars
                               ELSE SubSeq(value.chars, 1, stop - 1)))

\* atob(value): the argument is read as a string; a character that is not of
\* the alphabet, misplaced padding or a length of 4n + 1 raises an
\* InvalidCharacterError.
atob(value) ==
    LET chars == stringOf(value)
        padded == Len(chars) % 4 = 0 /\ Len(chars) > 0 /\ chars[Len(chars)] = "="
        body == IF ~padded THEN chars
                ELSE IF chars[Len(chars) - 1] = "=" THEN SubSeq(chars, 1, Len(chars) - 2)
                ELSE SubSeq(chars, 1, Len(chars) - 1)
    IN  IF Len(body) % 4 = 1 \/ \E i \in 1..Len(body) : body[i] \notin Base64Alphabet
        THEN [name |-> "InvalidCharacterError"]
        ELSE Text(decodeGroups(body))

\* fromBase64: Buffer where the host has it, atob elsewhere.
fromBase64(value, hasBuffer) == IF hasBuffer THEN bufferDecode(value) ELSE atob(value)

\* as.base64(value): try { fromBase64 } catch { asError }.
asBase64Result(value, hasBuffer) ==
    IF ~threw(fromBase64(value, hasBuffer)) THEN fromBase64(value, hasBuffer)
    ELSE asError(<<"Invalid value ", value, ", expected a valid base64 string">>)

(***************************************************************************)
(* Doubles.  A natural number of any size is the sequence of its limbs in  *)
(* base 2^15, or of its bits, least significant first; a positive double   *)
(* is [mant, exp], standing for mant * 2^exp with mant of at most 53 bits. *)
(* Every operation rounds to the nearest double, ties to even, as IEEE 754 *)
(* arithmetic does.                                                        *)
(***************************************************************************)
Precision == 53
LimbBits == 15
Base == 32768
PowersOf2 == <<1, 2, 4, 8, 16, 32, 64, 128, 256, 512, 1024, 2048, 4096, 8192, 16384>>

RECURSIVE limbsOf(_)
limbsOf(n) == IF n = 0 THEN <<>> ELSE <<n % Base>> \o limbsOf(n \div Base)

limbAt(limbs, i) == IF i \in DOMAIN limbs THEN limbs[i] ELSE 0
\* The integer of at most three limbs.
intOf(limbs) == limbAt(limbs, 1) + Base * (limbAt(limbs, 2) + Base * limbAt(limbs, 3))

bitsOf(limbs) ==
    [i \in 1..(LimbBits * Len(limbs)) |->
        (limbs[((i - 1) \div LimbBits) + 1] \div PowersOf2[((i - 1) % LimbBits) + 1]) % 2]

bitAt(bits, i) == IF i \in DOMAIN bits THEN bits[i] ELSE 0
limbOfBits(bits, j) ==
    LET x(b) == bitAt(bits, LimbBits * (j - 1) + b + 1) * PowersOf2[b + 1]
    IN  x(0) + x(1) + x(2) + x(3) + x(4) + x(5) + x(6) + x(7) + x(8) + x(9)
        + x(10) + x(11) + x(12) + x(13) + x(14)
limbsOfBits(bits) ==
    [j \in 1..((Len(bits) + LimbBits - 1) \div LimbBits) |-> limbOfBits(bits, j)]

\* The number of significant bits.
bitLength(bits) ==
    LET ones == {i \in 1..Len(bits) : bits[i] = 1}
    IN  IF ones = {} THEN 0 ELSE CHOOSE i \in ones : \A j \in ones : j <= i

RECURSIVE timesLimb(_, _, _)
\* limbs * m + carry, for m below Base.
timesLimb(limbs, m, carry) ==
    IF limbs = <<>> THEN limbsOf(carry)
    ELSE <<(Head(limbs) * m + carry) % Base>>
         \o timesLimb(Tail(limbs), m, (Head(limbs) * m + carry) \div Base)

RECURSIVE addLimbs(_, _, _)
addLimbs(a, b, carry) ==
    IF a = <<>> /\ b = <<>> THEN limbsOf(carry)
    ELSE <<(limbAt(a, 1) + limbAt(b, 1) + carry) % Base>>
         \o addLimbs(IF a = <<>> THEN a ELSE Tail(a), IF b = <<>> THEN b ELSE Tail(b),
                     (limbAt(a, 1) + limbAt(b, 1) + carry) \div Base)

\* limbs * n, for n below Base * Base.
timesLimbs(limbs, n) ==
    addLimbs(timesLimb(limbs, n % Base, 0), <<0>> \o timesLimb(limbs, n \div Base, 0), 0)

\* One step of the long division: high is the result for the higher limbs.
divStep(high, limb, d) ==
    [q |-> <<(Base * high.r + limb) \div d>> \o high.q, r |-> (Base * high.r + limb) % d]

RECURSIVE divLimbs(_, _)
\* limbs divided by a positive integer below 2^16:
\* [q |-> quotient, r |-> remainder].
divLimbs(limbs, d) ==
    IF limbs = <<>> THEN [q |-> <<>>, r |-> 0]
    ELSE divStep(divLimbs(Tail(limbs), d), Head(limbs), d)

\* bits + 1.
increment(bits) ==
    LET free == {i \in 1..Len(bits) : bits[i] = 0}
        at == IF free = {} THEN Len(bits) + 1 ELSE Min(free)
    IN  [i \in 1..(IF free = {} THEN Len(bits) + 1 ELSE Len(bits)) |->
            IF i < at THEN 0 ELSE IF i = at THEN 1 ELSE bits[i]]

\* mant * 2^exp, with sticky telling that more was cut off below mant,
\* rounded to Precision bits.
roundDouble(mant, exp, sticky) ==
    LET m == SubSeq(mant, 1, bitLength(mant))
        cut == Len(m) - Precision
        kept == SubSeq(m, cut + 1, Len(m))
        half == m[cut] = 1
        below == sticky \/ \E i \in 1..(cut - 1) : m[i] = 1
        up == half /\ (below \/ kept[1] = 1)
    IN  IF cut <= 0 THEN [mant |-> m, exp |-> exp]
        ELSE [mant |-> IF up THEN increment(kept) ELSE kept, exp |-> exp + cut]

\* Extra limbs, and bits, for a quotient to be rounded correctly.
GuardLimbs == 5
GuardBits == 75

\* The double nearest to n / d, for integers n >= 0 and d > 0.
doubleOfRatio(n, d) ==
    LET quotient == divLimbs([i \in 1..GuardLimbs |-> 0] \o limbsOf(n), d)
    IN  roundDouble(bitsOf(quotient.q), 0 - GuardBits, quotient.r # 0)

\* x * n for a double x and an integer n >= 0.
timesInt(x, n) == roundDouble(bitsOf(timesLimbs(limbsOfBits(x.mant), n)), x.exp, FALSE)

\* x / d for a double x and an integer d > 0.
overInt(x, d) ==
    LET quotient == divLimbs([i \in 1..GuardLimbs |-> 0] \o limbsOfBits(x.mant), d)
    IN  roundDouble(bitsOf(quotient.q), x.exp - GuardBits, quotient.r # 0)

\* Math.floor(x) of a double x >= 0 below 2^31, as an integer.
floorOf(x) ==
    IF x.exp >= 0 THEN intOf(limbsOfBits([i \in 1..x.exp |-> 0] \o x.mant))
    ELSE intOf(limbsOfBits(SubSeq(x.mant, 1 - x.exp, Len(x.mant))))

\* MULTIPLIERS[unit]
Units == <<<<"m", "s">>, <<"s">>, <<"m">>, <<"h">>, <<"d">>, <<"w">>>>
MULTIPLIERS(unit) ==
    CASE unit = <<"m", "s">> -> 1
      [] unit = <<"s">> -> 1000
      [] unit = <<"m">> -> 60000
      [] unit = <<"h">> -> 3600000
      [] unit = <<"d">> -> 86400000
      [] unit = <<"w">> -> 604800000

RECURSIVE amountLength(_, _)
\* How much of chars the group (\d*\.?\d*) of TIME_REGEX takes: digits, at
\* most one point, digits.
amountLength(chars, pointSeen) ==
    IF chars = <<>> THEN 0
    ELSE IF digitValue(Head(chars), 10) >= 0 THEN 1 + amountLength(Tail(chars), pointSeen)
    ELSE IF Head(chars) = "." /\ ~pointSeen THEN 1 + amountLength(Tail(chars), TRUE)
    ELSE 0

\* value.match(TIME_REGEX): [amount, unit] with the unit defaulting to ms,
\* or NoMatch.
NoMatch == [matched |-> FALSE]
timeMatch(chars) ==
    LET n == amountLength(chars, FALSE)
        rest == SubSeq(chars, n + 1, Len(chars))
    IN  IF rest = <<>> THEN [matched |-> TRUE, amount |-> chars, unit |-> <<"m", "s">>]
        ELSE IF \E i \in 1..Len(Units) : Units[i] = rest
        THEN [matched |-> TRUE, amount |-> SubSeq(chars, 1, n), unit |-> rest]
        ELSE NoMatch

\* parseFloat(amount) for an amount the pattern matched: NaN without a
\* digit, else the double nearest to the decimal.
parseFloat(amount) ==
    LET dot == indexOf(amount, {"."})
        int == IF dot = 0 THEN amount ELSE SubSeq(amount, 1, dot - 1)
        frac == IF dot = 0 THEN <<>> ELSE SubSeq(amount, dot + 1, Len(amount))
    IN  IF int \o frac = <<>> THEN NaN
        ELSE doubleOfRatio(digitsValue(int \o frac, 10), Power10(Len(frac)))

\* as.time(value, conversionFactor), for a conversion factor that is a
\* positive integer (1 when the argument is omitted).
asTimeResult(value, conversionFactor) ==
    IF value.t # "string" \/ value.chars = <<>>
    THEN asError(<<"Invalid value ", value, ", expected a valid time format">>)
    ELSE IF ~timeMatch(value.chars).matched
    THEN asError(<<"Invalid value ", value, ", expected a valid time format">>)
    ELSE LET amount == timeMatch(value.chars).amount
             multiplier == MULTIPLIERS(timeMatch(value.chars).unit)
             parsed == parseFloat(amount)
         IN  IF parsed = NaN
             THEN asError(<<"Invalid value ", value, ", expected a valid time format">>)
             ELSE normalize(FALSE,
                      floorOf(overInt(timesInt(parsed, multiplier), conversionFactor)), 0)

(***************************************************************************)
(* Calls of the as.* helpers.  The outcome of a call is what it returned,  *)
(* or what it threw.                                                       *)
(***************************************************************************)
helper(name, args, outcome) ==
    /\ call' = [fn |-> name, args |-> args]
    /\ IF threw(outcome) THEN thrown' = outcome /\ returned' = Unset
       ELSE thrown' = NoError /\ returned' = outcome
    /\ UNCHANGED <<schema, config, allErrors, issues, data, result, sessionVars, contextVars>>

asString(value) == helper("as.string", <<value>>, asStringResult(value))
asNumber(value) == helper("as.number", <<value>>, asNumberResult(value))
asDate(value) == helper("as.date", <<value>>, asDateResult(value))
asTime(value, conversionFactor) ==
    helper("as.time", <<value, conversionFactor>>, asTimeResult(value, conversionFactor))
asBoolean(value) == helper("as.boolean", <<value>>, asBooleanResult(value))
asArray(value, delimiter) ==
    helper("as.array", <<value, delimiter>>, asArrayResult(value, delimiter))
asJson(value) == helper("as.json", <<value>>, asJsonResult(value))
\* hasBuffer: whether the host defines Buffer (Node.js) or not (a browser).
asBase64(value, hasBuffer) ==
    helper("as.base64", <<value, hasBuffer>>, asBase64Result(value, hasBuffer))

Texts(S) == {Text(chars) : chars \in S} \cup {Undefined}

StringTexts == {<<>>, <<"a">>, <<"s", "t", "r", "i", "n", "g">>}
TimeAmounts ==
    {<<>>,
     <<"0">>,
     <<"1">>,
     <<"2">>,
     <<"3">>,
     <<"1", ".", "5">>,
     <<"0", ".", "7">>,
     <<"2", ".", "3">>,
     <<".", "5">>,
     <<"1", ".">>,
     <<"0", ".", "1">>,
     <<"1", ".", "0", "0", "5">>,
     <<".">>}
TimeTexts ==
    {amount \o unit : amount \in TimeAmounts, unit \in {Units[i] : i \in 1..Len(Units)} \cup {<<>>}}
    \cup {<<"s", "s">>,
     <<".", "m", "s">>,
     <<"5", "x">>,
     <<"5", "S">>,
     <<"5", " ", "s">>,
     <<" ", "5">>,
     <<"-", "5", "s">>,
     <<"1", "e", "3", "s">>,
     <<"1", ".", "2", ".", "3", "s">>,
     <<"5", "s", "e", "c">>,
     <<"a", "b", "c">>,
     <<"1", ",", "5", "s">>}
ConversionFactors == {1, 1000, 7}
BooleanTexts ==
    {<<"0">>,
     <<"1">>,
     <<"t", "r", "u", "e">>,
     <<"f", "a", "l", "s", "e">>,
     <<"e", "n", "a", "b", "l", "e", "d">>,
     <<"d", "i", "s", "a", "b", "l", "e", "d">>,
     <<"T", "R", "U", "E">>,
     <<"F", "a", "l", "s", "e">>,
     <<"E", "n", "a", "b", "l", "e", "d">>,
     <<"D", "I", "S", "A", "B", "L", "E", "D">>,
     <<"y", "e", "s">>,
     <<"2">>,
     <<>>,
     <<"t", "r", "u">>,
     <<"t", "r", "u", "e", " ">>,
     <<"0", "1">>,
     <<"o", "n">>}
ArrayTexts == {<<"1", ",", "2", ",", "3">>,
     <<>>,
     <<"a">>,
     <<",">>,
     <<"a", ",", ",", "b">>}
Delimiters == {<<",">>, <<>>, <<",", ",">>}
OtherJsonTexts == {<<>>,
     <<"{">>,
     <<"u", "n", "d", "e", "f", "i", "n", "e", "d">>,
     <<"{", "a", ":", "1", "}">>,
     <<"n", "u", "l">>}
Base64Texts ==
    {<<"d", "G", "V", "z", "d", "A", "=", "=">>,
     <<"d", "G", "V", "z", "d", "A">>,
     <<"Y", "Q", "=", "=">>,
     <<"Y", "Q">>,
     <<>>,
     <<"!">>,
     <<"d", "G", "V", "z", "d", "A", "=">>,
     <<"Y">>,
     <<"=", "Y", "Q", "=">>}

AsNext ==
    \/ \E value \in Texts(StringTexts) : asString(value)
    \/ \E value \in Texts(NumberTexts) : asNumber(value)
    \/ \E value \in Texts(DateTexts \cup {<<>>, <<"a">>}) : asDate(value)
    \/ \E value \in Texts(TimeTexts), conversionFactor \in ConversionFactors :
           asTime(value, conversionFactor)
    \/ \E value \in Texts(BooleanTexts) : asBoolean(value)
    \/ \E value \in Texts(ArrayTexts), delimiter \in Delimiters : asArray(value, delimiter)
    \/ \E value \in Texts(JsonTexts \cup OtherJsonTexts) : asJson(value)
    \/ \E value \in Texts(Base64Texts), hasBuffer \in BOOLEAN : asBase64(value, hasBuffer)

AsSpec == Init /\ [][AsNext]_vars

(***************************************************************************)
(* Context: the registry the generated code reads through ctx.             *)
(***************************************************************************)
MaxRegistry == 4

\* The values codeGen registers: constructors and symbols used as schemas.
Registrable ==
    {SClass("Error"), SClass("TypeError"), SClass("Date"), SSymbol("s"), SSymbol("t")}

\* this.lookupMap.get(value): the entries of the map under the key value.
lookupMapGet(value) == {e \in lookupMap : e[1] = value}

\* Mutant of register: every call pushes, the map is not consulted.
register_AlwaysPush(value) ==
    /\ registry' = Append(registry, value)
    /\ lookupMap' = {e \in lookupMap : e[1] # value} \cup {<<value, Len(registry)>>}
    /\ call' = [fn |-> "register", value |-> value]
    /\ returned' = Len(registry)
    /\ thrown' = NoError
    /\ UNCHANGED <<schema, config, allErrors, issues, data, result, sessionVars>>

\* Context.register(value): the index under which the map holds value, or
\* the index of a new last element of the registry.
register(value) ==
    /\ IF lookupMapGet(value) # {}
       THEN /\ returned' = (CHOOSE e \in lookupMapGet(value) : TRUE)[2]
            /\ UNCHANGED contextVars
       ELSE /\ registry' = Append(registry, value)
            /\ lookupMap' = lookupMap \cup {<<value, Len(registry)>>}
            /\ returned' = Len(registry)
    /\ call' = [fn |-> "register", value |-> value]
    /\ thrown' = NoError
    /\ UNCHANGED <<schema, config, allErrors, issues, data, result, sessionVars>>

\* The generated code of a registered schema run on d: it reads
\* `ctx.registry[index]` and compares the data with it.
readRegistry(index, d) ==
    /\ index < Len(registry)
    /\ call' = [fn |-> "validator", index |-> index]
    /\ data' = d
    /\ result' = IF fastValidator(registry[index + 1], d) = "ok" THEN "true" ELSE "false"
    /\ UNCHANGED <<schema, thrown, returned, config, allErrors, issues, sessionVars,
                   contextVars>>

ContextData == {VErr("boom"), VDate(TRUE), VDate(FALSE), VNum(1), VNull}

ContextNext ==
    \/ /\ Len(registry) < MaxRegistry
       /\ \E value \in Registrable : register(value)
    \/ \E index \in 0..(MaxRegistry - 1), d \in ContextData : readRegistry(index, d)

ContextSpec == Init /\ [][ContextNext]_vars

(***************************************************************************)
(* Vocabulary of the properties.                                           *)
(***************************************************************************)
\* compile(s)(d) returns true.
Accepts(s, d) == fastValidator(s, d) = "ok"
\* How a call of compile(s)(d) ends.
Verdict(s, d) ==
    CASE fastValidator(s, d) = "ok" -> "true"
      [] fastValidator(s, d) = "fail" -> "false"
      [] OTHER -> "throw"
\* What a failing call of compile(s, {allErrors: ae})(d) stores in issues.
Reported(s, ae, d) == IF ae THEN issueValidator(s, d) ELSE firstErrorValidator(s, d)
Called == result # "none"
Reverse(seq) == [i \in 1..Len(seq) |-> seq[Len(seq) + 1 - i]]
StartsWith(path, seg) == Len(path) >= 1 /\ path[1] = seg
IsPlainObject(v) == v.t = "object"

\* C1: after every invocation validator.issues is the outcome of that
\* invocation alone: empty when it returned true (whatever earlier calls
\* returned), the issues of this call when it returned false.
C1_IssuesAreTheOutcomeOfTheCall ==
    /\ result = "true" => issues = emptyIssues
    /\ result = "false" => issues = Reported(schema, allErrors, data)

\* C2: invoking a compiled validator never throws; it returns true or false.
C2_InvocationNeverThrows == result # "throw"

\* C3: compile(or(s1..sn))(d) returns true exactly when some compile(si)(d)
\* returns true, and the order of the children does not change the verdict.
C3_OrAcceptsIffSomeChildAccepts ==
    (Called /\ schema.k = "or") =>
        /\ (result = "true") <=> (\E i \in 1..Len(schema.schemas) : Accepts(schema.schemas[i], data))
        /\ Verdict(SOr(Reverse(schema.schemas)), data) = result

\* C4: in first-error mode an or() produces an issue only when all of its
\* children reject the value: when the value of a property is accepted by the
\* property's or() schema and the data fails elsewhere, the reported issue is
\* not one of that property.
C4_OrReportsOnlyWhenAllChildrenReject ==
    (result = "false" /\ ~allErrors /\ schema.k = "object" /\ IsPlainObject(data)) =>
        \A i \in 1..Len(schema.keys) :
            LET key == schema.keys[i]
            IN  (schema.props[key].k = "or" /\ Accepts(schema.props[key], Get(data, key)))
                => \A j \in 1..Len(issues.list) :
                       ~StartsWith(issues.list[j].path, PKey(key))

IsCombinator(s) == s.k \in {"or", "and", "optional", "discriminated"}
IsLeaf(s) == s.k \in {"type", "lit", "null"}
PathsOf(list) == [i \in 1..Len(list) |-> list[i].path]
MessagesOf(list) == [i \in 1..Len(list) |-> list[i].message]

\* The value v is itself rejected at the node s (not a value below it).
RECURSIVE FailsHere(_, _)
FailsHere(s, v) ==
    \/ \E i \in 1..Len(issueValidator(s, v).list) : issueValidator(s, v).list[i].path = <<>>
    \/ IsCombinator(s) /\ \E i \in 1..Len(s.schemas) : FailsHere(s.schemas[i], v)

\* The value of the own property `key` of an object or array.
ValueAt(v, key) ==
    LET at == {i \in 1..Len(ObjectKeys(v)) : ObjectKeys(v)[i] = key}
    IN  IF at = {} THEN VUndef ELSE ObjectValues(v)[Min(at)]

\* path is the sequence of property keys and array indices that leads from
\* the value v, validated against s, down to a value rejected where it ends.
RECURSIVE PathFollows(_, _, _)
PathFollows(s, v, path) ==
    IF path = <<>> THEN FailsHere(s, v)
    ELSE IF IsCombinator(s)
    THEN \E i \in 1..Len(s.schemas) : PathFollows(s.schemas[i], v, path)
    ELSE IF TypeOf(v) # "object" \/ v.t = "null" THEN FALSE
    ELSE LET seg == Head(path)
             rest == Tail(path)
         IN CASE s.k = "object" ->
                 /\ "key" \in DOMAIN seg
                 /\ \/ \E i \in 1..Len(s.keys) :
                          /\ s.keys[i] = seg.key
                          /\ PathFollows(s.props[seg.key], Get(v, seg.key), rest)
                    \/ \E i \in 1..Len(ObjectKeys(v)) :
                          /\ ObjectKeys(v)[i] = seg.key
                          /\ \/ Len(s.vs) = 1 /\ PathFollows(s.vs[1], ValueAt(v, seg.key), rest)
                             \/ Len(s.ks) = 1 /\ PathFollows(s.ks[1], VStr(seg.key), rest)
              [] s.k = "array" /\ Len(s.items) = 1 ->
                 /\ "idx" \in DOMAIN seg
                 /\ IsArray(v)
                 /\ seg.idx < Len(v.items)
                 /\ PathFollows(s.items[1], v.items[seg.idx + 1], rest)
              [] s.k = "array" /\ Len(s.items) # 1 ->
                 /\ "idx" \in DOMAIN seg
                 /\ seg.idx < Len(s.items)
                 /\ PathFollows(s.items[seg.idx + 1], GetIdx(v, seg.idx), rest)
              [] s.k = "tuple" ->
                 /\ "idx" \in DOMAIN seg
                 /\ seg.idx < Len(s.schemas)
                 /\ PathFollows(s.schemas[seg.idx + 1], GetIdx(v, seg.idx), rest)
              [] OTHER -> FALSE

\* C5: every issue's path is the full sequence of property keys and array
\* indices traversed from the root to the failing value, runtime segments
\* (array elements, $keys / $values iteration) included, also when the
\* failing value lies deeper than the iterated element.
C5_PathIsTheFullTraversal ==
    result = "false" =>
        \A i \in 1..Len(issues.list) : PathFollows(schema, data, issues.list[i].path)

\* C6: in first-error mode a failing call leaves exactly one issue, the issue
\* of the first failing leaf in pre-order, which is the first of the issues
\* the all-errors procedure collects in traversal order.
C6_FirstErrorIsTheFirstFailingLeaf ==
    (result = "false" /\ ~allErrors) =>
        /\ issues.def
        /\ Len(issues.list) = 1
        /\ Len(issueValidator(schema, data).list) >= 1
        /\ issues.list[1] = issueValidator(schema, data).list[1]

\* The declared properties, or the positions of an array, whose value the
\* child schema rejects, in order.
FailingKeys(s, v) == SelectSeq(s.keys, LAMBDA key : ~Accepts(s.props[key], Get(v, key)))
FailingPositions(s, v) ==
    SelectSeq([i \in 1..Len(v.items) |-> i], LAMBDA i : ~Accepts(s.items[1], v.items[i]))

\* C7: with allErrors a failing call yields one issue per failing leaf in
\* traversal order: for an object schema whose k declared properties are
\* leaves, one per failing property in declaration order (k when all fail);
\* for a homogeneous array schema, one per failing element in index order.
C7_AllErrorsOneIssuePerFailingLeaf ==
    (result = "false" /\ allErrors) =>
        /\ ( /\ schema.k = "object"
             /\ schema.ks = <<>> /\ schema.vs = <<>> /\ ~schema.strict
             /\ \A i \in 1..Len(schema.keys) : IsLeaf(schema.props[schema.keys[i]])
             /\ data.t \in {"object", "array"} )
           => LET failing == FailingKeys(schema, data)
              IN  /\ PathsOf(issues.list) = [i \in 1..Len(failing) |-> <<PKey(failing[i])>>]
                  /\ MessagesOf(issues.list) =
                        [i \in 1..Len(failing) |->
                            issueValidator(schema.props[failing[i]],
                                           Get(data, failing[i])).list[1].message]
        /\ ( /\ schema.k = "array"
             /\ Len(schema.items) = 1
             /\ IsLeaf(schema.items[1])
             /\ IsArray(data) )
           => LET failing == FailingPositions(schema, data)
              IN  /\ PathsOf(issues.list) = [i \in 1..Len(failing) |-> <<PIdx(failing[i] - 1)>>]
                  /\ MessagesOf(issues.list) =
                        [i \in 1..Len(failing) |->
                            issueValidator(schema.items[1],
                                           data.items[failing[i]]).list[1].message]

\* C7 witness: an all-errors call on an object schema with two declared
\* leaf properties, both failing, left two issues.
C7_Witness ==
    /\ result = "false" /\ allErrors
    /\ schema.k = "object" /\ Len(schema.keys) = 2
    /\ \A i \in 1..2 : IsLeaf(schema.props[schema.keys[i]])
    /\ data.t = "object"
    /\ Len(FailingKeys(schema, data)) = 2
    /\ Len(issues.list) = 2

FirstFailing(s, v) == Min({i \in 1..Len(s.schemas) : ~Accepts(s.schemas[i], v)})

\* C9: compile(and(s1..sn))(d) returns true exactly when every child accepts
\* d; a failing call reports, in first-error mode, exactly one issue, that of
\* the first failing child in declared order, and in all-errors mode the
\* issues of every failing child.
C9_AndReportsTheFirstFailingChild ==
    (Called /\ schema.k = "and") =>
        /\ (result = "true") <=> (\A i \in 1..Len(schema.schemas) : Accepts(schema.schemas[i], data))
        /\ (result = "false" /\ ~allErrors) =>
              /\ Len(issues.list) = 1
              /\ issues = firstErrorValidator(schema.schemas[FirstFailing(schema, data)], data)
        /\ (result = "false" /\ allErrors) =>
              issues.list = Concat([i \in 1..Len(schema.schemas) |->
                                IF Accepts(schema.schemas[i], data) THEN <<>>
                                ELSE issueValidator(schema.schemas[i], data).list])

\* C10: compile(optional(s))(d) returns true when d is null or undefined,
\* whatever s is, and otherwise ends as compile(s)(d) does, with the same
\* issues.
C10_OptionalAbsorbsNullish ==
    (Called /\ schema.k = "optional") =>
        IF IsNullish(data) THEN result = "true"
        ELSE /\ result = Verdict(schema.schemas[1], data)
             /\ result = "false" => issues = Reported(schema.schemas[1], allErrors, data)

\* C10 witness: optional(s) accepted null or undefined where s rejects it.
C10_Witness ==
    /\ schema.k = "optional" /\ result = "true"
    /\ IsNullish(data)
    /\ ~Accepts(schema.schemas[1], data)

\* C11: compile(tuple(s1..sn))(d) returns true exactly when d is an array of
\* length n whose element at each position is accepted by the schema of that
\* position; on an array of another length the diagnostic procedure leaves
\* one issue, the tuple-length issue at the tuple's own path, and none for
\* the elements.
C11_TupleIsExact ==
    (Called /\ schema.k = "tuple") =>
        LET n == Len(schema.schemas)
        IN  /\ (result = "true") <=>
                   /\ IsArray(data)
                   /\ Len(data.items) = n
                   /\ \A i \in 1..n : Accepts(schema.schemas[i], data.items[i])
            /\ result \in {"true", "false"}
            /\ (IsArray(data) /\ Len(data.items) # n) =>
                   issues = Issues(<<[message |-> "Invalid tuple length "
                                         \o ToString(Len(data.items))
                                         \o ", expected " \o ToString(n),
                                      path |-> <<>>]>>)

\* C11 witness: tuple(Number, null) rejected a one-element array whose
\* element the first position accepts, with the single length issue.
C11_Witness ==
    /\ result = "false"
    /\ schema = STuple(<<TNumber, SNull>>)
    /\ data = VArr(<<VNum(1)>>)
    /\ Len(issues.list) = 1

\* The discriminant literals of the variants, in declared order.
Discriminants(s) == [i \in 1..Len(s.schemas) |-> s.schemas[i].props[s.key].v]

\* C12: for discriminated(variants, key) the data's value at key is compared
\* by strict equality with each variant's literal in declared order and the
\* data is validated against the first matching variant alone, so the call
\* ends, and reports, as that variant's schema does; when no variant matches
\* the call fails with one issue, whose message lists every variant's
\* discriminant literal.
C12_DiscriminatedValidatesTheMatchingVariant ==
    (Called /\ schema.k = "discriminated" /\ data.t \in {"object", "array"}) =>
        LET d == Get(data, schema.key)
            match == {i \in 1..Len(schema.schemas) : StrictEquals(d, Discriminants(schema)[i])}
        IN  IF match = {}
            THEN /\ result = "false"
                 /\ issues = Issues(<<[message |-> "Invalid discriminant value " \o JsonText(d)
                                          \o ", expected one of: "
                                          \o JoinText([i \in 1..Len(schema.schemas) |->
                                                 toLiteral(Discriminants(schema)[i])], ", "),
                                       path |-> <<>>]>>)
            ELSE /\ result = Verdict(schema.schemas[Min(match)], data)
                 /\ result = "false" =>
                        issues = Reported(schema.schemas[Min(match)], allErrors, data)

\* The issue of the $strict check on the keys `extra`.
StrictIssue(extra) ==
    [message |-> "Extra properties: " \o JoinText(extra, ",") \o ", are not allowed",
     path |-> <<>>]

\* C13: an object schema with $strict rejects data that has an own key
\* which is not a declared property name, with an issue naming the extra
\* keys, and lets data with declared keys only pass the strict check.  The
\* check is independent of the $keys, $values and declared-property checks
\* of the same schema: the verdict is that of the schema without $strict
\* and of the strict check together, and the all-errors issues are those of
\* the schema without $strict plus the strict issue; in first-error mode
\* the strict issue is the one reported when $keys and $values pass.
C13_StrictRejectsExtraKeys ==
    (Called /\ schema.k = "object" /\ schema.strict /\ data.t \in {"object", "array"}) =>
        LET extra == SelectSeq(ObjectKeys(data), LAMBDA key :
                         \A j \in 1..Len(schema.keys) : key # schema.keys[j])
            loose == [schema EXCEPT !.strict = FALSE]
            marks == SObjFull(<<>>, <<>>, schema.ks, schema.vs, FALSE)
        IN  /\ (result = "true") <=> (extra = <<>> /\ Accepts(loose, data))
            /\ result \in {"true", "false"}
            /\ (result = "false" /\ allErrors) =>
                   /\ SelectSeq(issues.list, LAMBDA issue : issue # StrictIssue(extra))
                          = issueValidator(loose, data).list
                   /\ Len(issues.list) = Len(issueValidator(loose, data).list)
                                             + (IF extra = <<>> THEN 0 ELSE 1)
            /\ (result = "false" /\ ~allErrors /\ extra # <<>> /\ Accepts(marks, data)) =>
                   issues = Issues(<<StrictIssue(extra)>>)

\* C13 witness: a schema with $keys, $values, $strict and a declared
\* property rejected, in all-errors mode, data with an extra key and a
\* failing declared property, reporting both.
C13_Witness ==
    /\ result = "false" /\ allErrors
    /\ schema.k = "object" /\ schema.strict
    /\ Len(schema.ks) = 1 /\ Len(schema.vs) = 1 /\ Len(schema.keys) = 1
    /\ data.t = "object"
    /\ \E i \in 1..Len(issues.list) : issues.list[i] = StrictIssue(<<"b">>)
    /\ \E i \in 1..Len(issues.list) : issues.list[i].path = <<PKey("a")>>

\* C14: a declared property the data object lacks is validated as undefined:
\* a type reference, pattern, object, array or literal child rejects it,
\* with the issue that child gives for undefined at the property's path,
\* and an optional(...) or null child accepts it and reports nothing there.
C14_MissingPropertyIsUndefined ==
    (Called /\ schema.k = "object" /\ IsPlainObject(data)) =>
        \A i \in 1..Len(schema.keys) :
            LET key == schema.keys[i]
                child == schema.props[key]
                missing == \A j \in 1..Len(data.keys) : data.keys[j] # key
            IN  missing =>
                  /\ child.k \in {"type", "pattern", "object", "array", "lit"} =>
                        /\ result = "false"
                        /\ allErrors =>
                              \E j \in 1..Len(issues.list) :
                                  issues.list[j] =
                                      [message |-> issueValidator(child, VUndef).list[1].message,
                                       path |-> <<PKey(key)>>]
                  /\ child.k \in {"optional", "null"} =>
                        /\ Accepts(child, VUndef)
                        /\ result = "false" =>
                              \A j \in 1..Len(issues.list) :
                                  ~StartsWith(issues.list[j].path, PKey(key))
                  /\ (\A j \in 1..Len(schema.keys) : schema.props[schema.keys[j]].k \in {"optional", "null"})
                        /\ schema.ks = <<>> /\ schema.vs = <<>> /\ data.keys = <<>>
                        => result = "true"

\* C14 witness: { a: /^\w+$/ } rejected {} in all-errors mode, although the
\* text "undefined" matches the pattern.
C14_Witness ==
    /\ result = "false" /\ allErrors
    /\ schema = SObj(<<"a">>, Props1(Word))
    /\ data = VObj(<<>>, <<>>)
    /\ test(Word, ToStr(VUndef))
    /\ Len(issues.list) = 1

\* C15: an Error object validated against a type reference other than Error
\* or a subclass of Error, or against a literal schema (a symbol literal
\* included), is rejected and the issue's message is the Error's own
\* message; against Error or a subclass of it, an instance of that class is
\* accepted.
C15_ErrorDataReportsItsOwnMessage ==
    (Called /\ IsError(data)) =>
        /\ ( \/ schema.k \in {"type", "lit", "symbol"}
             \/ schema.k = "class" /\ ~isError(schema.name) )
           => /\ result = "false"
              /\ issues = Issues(<<[message |-> data.msg, path |-> <<>>]>>)
        /\ (schema.k = "class" /\ isError(schema.name) /\ InstanceOf(data, schema.name))
           => result = "true"

\* C16: or(), and() and tuple() called with no schema throw a TypeError from
\* the call itself and return nothing; called with one or more schemas they
\* return a combinator of their kind holding those schemas in order;
\* optional(schema) returns a combinator holding the one schema and never
\* throws.
C16_OperatorsRequireASchema ==
    /\ call.fn \in {"or", "and", "tuple"} =>
          IF call.args = <<>>
          THEN /\ thrown = TypeErrorOf("Operator requires at least one schema")
               /\ returned = Unset
          ELSE /\ thrown = NoError
               /\ returned.k = call.fn
               /\ returned.schemas = call.args
    /\ call.fn = "optional" =>
          /\ thrown = NoError
          /\ returned.k = "optional"
          /\ returned.schemas = call.args

\* C16 witness: tuple() with no schema threw, before anything was compiled.
C16_Witness ==
    /\ call = [fn |-> "tuple", args |-> <<>>]
    /\ thrown.name = "TypeError"
    /\ schema = NoSchema

\* A variant that is no object schema, lacks the key, or has no literal there.
Malformed(s) ==
    \E i \in 1..Len(s.schemas) :
        LET variant == s.schemas[i]
        IN  \/ variant.k # "object"
            \/ \A j \in 1..Len(variant.keys) : variant.keys[j] # s.key
            \/ variant.props[s.key].k # "lit"

\* C17: discriminated(schemas, key) throws at construction exactly when
\* schemas is empty; with a variant that lacks the key, or whose value at
\* the key is no string, number or boolean literal, construction succeeds
\* and compile throws a TypeError, so that no validator ever exists for
\* such a schema.
C17_MalformedVariantsFailAtCompile ==
    /\ call.fn = "discriminated" =>
          /\ (thrown # NoError) <=> (call.args = <<>>)
          /\ call.args # <<>> => returned = SDiscriminated(call.args, call.key)
    /\ (call.fn = "compile" /\ call.schema.k = "discriminated") =>
          IF Malformed(call.schema)
          THEN thrown.name = "TypeError" /\ returned = Unset
          ELSE thrown = NoError /\ returned = Validator /\ schema = call.schema
    /\ schema.k = "discriminated" => ~Malformed(schema)

\* C17 witness: compile threw on a constructed schema whose first variant is
\* well formed and whose second has a type reference at the key.
C17_Witness ==
    /\ call.fn = "compile"
    /\ call.schema.k = "discriminated"
    /\ Len(call.schema.schemas) = 2
    /\ ~Malformed([call.schema EXCEPT !.schemas = <<call.schema.schemas[1]>>])
    /\ thrown.name = "TypeError"
    /\ schema = NoSchema

\* C18: ascertain(schema, data) returns normally when the data is valid; when
\* it is not, it throws a TypeError whose message is the first issue's
\* message and whose cause.issues is the non-empty issue list of that
\* validation.
C18_AscertainThrowsTheIssues ==
    call.fn = "ascertain" =>
        IF Accepts(call.schema, call.data)
        THEN thrown = NoError /\ returned = VUndef
        ELSE /\ thrown.name = "TypeError"
             /\ "cause" \in DOMAIN thrown
             /\ thrown.cause.issues # <<>>
             /\ thrown.cause.issues = firstErrorValidator(call.schema, call.data).list
             /\ thrown.message = thrown.cause.issues[1].message

\* C19: the function createValidator(config) returns, called with a partial
\* schema, returns the very config object when the config satisfies the
\* schema and throws, returning nothing, when it does not; no call modifies
\* the config object or binds another one, so every call validates the same
\* object.
C19_ValidateConfigReturnsTheConfig ==
    [][ call'.fn = "validateConfig" =>
          /\ config' = config
          /\ IF Accepts(call'.schema, config.value)
             THEN thrown' = NoError /\ returned' = config
             ELSE thrown'.name = "TypeError" /\ returned' = Unset ]_vars

\* C19 witness: a second call on the same bound object returned it, after a
\* call with another schema threw.
C19_Witness ==
    /\ call.fn = "validateConfig"
    /\ call.schema = SObj(<<"a">>, Props1(TNumber))
    /\ config.value = VObj(<<"a">>, Props1(VNum(1)))
    /\ returned = config

\* C20: for every string L used as a literal schema, alone or as a child of
\* or(), compile succeeds and the validator accepts exactly the data equal to
\* L (or to another literal of the or()), returning false otherwise; the
\* content of L is not interpreted as code, so the issue of a rejected string
\* names L between quotes, verbatim or as JSON.stringify writes it.
C20_LiteralTextIsNotCode ==
    /\ (call.fn = "compile" /\ call.schema.k \in {"lit", "or"}) => thrown = NoError
    /\ (Called /\ schema.k \in {"lit", "or"}) =>
          /\ result \in {"true", "false"}
          /\ (result = "true") <=>
                 \E i \in 1..Len(Literals(schema)) : data = VStr(Literals(schema)[i])
          /\ (result = "false" /\ data.t = "string") =>
                 \E named \in {Literals(schema)[1], Escaped(Literals(schema)[1])} :
                     issues.list[1].message =
                         <<"Invalid value ">> \o data.s \o <<", expected ">>
                         \o <<Quote>> \o named \o <<Quote>>

IsSentinel(x) == x.t = "error"
AsCalled == call.fn \in {"as.string", "as.number", "as.date", "as.time", "as.boolean",
                         "as.array", "as.json", "as.base64"}
RadixOf(c) ==
    CASE c \in {"x", "X"} -> 16
      [] c \in {"o", "O"} -> 8
      [] c \in {"b", "B"} -> 2
      [] OTHER -> 0
Unsigned(chars) == IF chars # <<>> /\ Head(chars) \in {"+", "-"} THEN Tail(chars) ELSE chars
\* An optional sign, 0x, 0o or 0b, and digits of that radix.
SignedPrefixed(chars) ==
    LET body == Unsigned(chars)
    IN  /\ Len(body) >= 3
        /\ body[1] = "0"
        /\ RadixOf(body[2]) # 0
        /\ isDigits(SubSeq(body, 3, Len(body)), RadixOf(body[2]))
\* The value of the prefixed digits, with the sign applied.
PrefixedValue(chars) ==
    LET body == Unsigned(chars)
    IN  normalize(Head(chars) = "-",
                  digitsValue(SubSeq(body, 3, Len(body)), RadixOf(body[2])), 0)
\* A signed prefixed number with blanks around it: neither form of the claim.
BlankSignedPrefixed(chars) ==
    /\ chars # trim(chars)
    /\ SignedPrefixed(trim(chars))
    /\ Head(trim(chars)) \in {"+", "-"}
\* The number a text denotes: NaN when it denotes none.
NumberDenoted(chars) ==
    IF SignedPrefixed(chars) THEN PrefixedValue(chars)
    ELSE IF trim(chars) = <<>> THEN NaN
    ELSE Number(chars)

\* '<n><unit>': digits with at most one point and at least one digit, then
\* a unit or nothing.
TimeForm(chars) ==
    \E n \in 0..Len(chars) :
        LET amount == SubSeq(chars, 1, n)
            unit == SubSeq(chars, n + 1, Len(chars))
        IN  /\ unit = <<>> \/ \E i \in 1..Len(Units) : Units[i] = unit
            /\ \A i \in 1..n : amount[i] = "." \/ digitValue(amount[i], 10) >= 0
            /\ Cardinality({i \in 1..n : amount[i] = "."}) <= 1
            /\ \E i \in 1..n : digitValue(amount[i], 10) >= 0
TimeDigits(chars) ==
    SelectSeq(chars, LAMBDA c : digitValue(c, 10) >= 0)
TimeUnit(chars) ==
    LET letters == SelectSeq(chars, LAMBDA c : digitValue(c, 10) < 0 /\ c # ".")
    IN  IF letters = <<>> THEN <<"m", "s">> ELSE letters
TimeFraction(chars) ==
    LET dot == indexOf(chars, {"."})
    IN  IF dot = 0 THEN 0
        ELSE Len(SelectSeq(SubSeq(chars, dot, Len(chars)), LAMBDA c : digitValue(c, 10) >= 0))
\* floor(n * factor(unit) / f), in exact arithmetic.
ExactTime(chars, f) ==
    LET product == timesLimbs(limbsOf(digitsValue(TimeDigits(chars), 10)),
                              MULTIPLIERS(TimeUnit(chars)))
    IN  intOf(divLimbs(divLimbs(product, Power10(TimeFraction(chars))).q, f).q)

IsBase64(chars) ==
    LET padded == Len(chars) % 4 = 0 /\ Len(chars) > 0 /\ chars[Len(chars)] = "="
        body == IF ~padded THEN chars
                ELSE IF chars[Len(chars) - 1] = "=" THEN SubSeq(chars, 1, Len(chars) - 2)
                ELSE SubSeq(chars, 1, Len(chars) - 1)
    IN  Len(body) % 4 # 1 /\ \A i \in 1..Len(body) : body[i] \in Base64Alphabet

\* Whether the argument of the call is valid input of the helper.
ValidInput ==
    LET value == call.args[1]
    IN  /\ value.t = "string"
        /\ CASE call.fn = "as.string" -> TRUE
             [] call.fn = "as.number" -> NumberDenoted(value.chars) # NaN
             [] call.fn = "as.date" -> value.chars \in DateTexts
             [] call.fn = "as.time" -> TimeForm(value.chars)
             [] call.fn = "as.boolean" ->
                    lowerCase(value.chars) \in {<<"0">>, <<"1">>, <<"t", "r", "u", "e">>,
                        <<"f", "a", "l", "s", "e">>, <<"e", "n", "a", "b", "l", "e", "d">>,
                        <<"d", "i", "s", "a", "b", "l", "e", "d">>}
             [] call.fn = "as.array" -> TRUE
             [] call.fn = "as.json" -> value.chars \in JsonTexts
             [] call.fn = "as.base64" -> IsBase64(value.chars)
\* Input the claims say nothing about.
Unspecified ==
    /\ call.fn = "as.number"
    /\ call.args[1].t = "string"
    /\ BlankSignedPrefixed(call.args[1].chars)

\* C22: no as.* helper throws, whatever string or undefined it is given; on
\* invalid input it returns a TypeError and on valid input a value that is
\* no error.
C22_HelpersReturnASentinel ==
    (AsCalled /\ ~Unspecified) =>
        /\ thrown = NoError
        /\ returned # Unset
        /\ IsSentinel(returned) <=> ~ValidInput

\* C23: as.number returns the sentinel for an input that denotes no number
\* or a number that is not finite, and for a signed 0x, 0o or 0b input the
\* value of the digits with the sign applied.
C23_NumberIsFiniteOrSentinel ==
    (call.fn = "as.number" /\ ~Unspecified) =>
        LET value == call.args[1]
        IN  /\ (value.t # "string" \/ NumberDenoted(value.chars).t \in {"NaN", "Infinity"})
                   => IsSentinel(returned)
            /\ (value.t = "string" /\ SignedPrefixed(value.chars))
                   => returned = PrefixedValue(value.chars)

\* C24: as.time(input, f) returns floor(n * factor(unit) / f) for an input
\* '<n><unit>', the unit defaulting to ms, and the sentinel for undefined,
\* the empty string and every other input.
C24_TimeIsTheFlooredProduct ==
    call.fn = "as.time" =>
        LET value == call.args[1]
        IN  IF value.t = "string" /\ TimeForm(value.chars)
            THEN returned = normalize(FALSE, ExactTime(value.chars, call.args[2]), 0)
            ELSE IsSentinel(returned)

\* C25: on each invocation of a compiled validator the fast procedure runs
\* first and the diagnostic procedure runs only when it returned false: for
\* accepted data only the fast procedure runs and no issues array is built or
\* stored, for rejected data the validator's diagnostic procedure runs exactly
\* once, after the fast procedure.
C25_DiagnosticOnlyAfterFastFails ==
    [][call'.fn = "validator" =>
        /\ Head(ran') = "fastValidator"
        /\ \A p \in 2..Len(ran') : result' = "false"
        /\ result' = "true" =>
              /\ ran' = <<"fastValidator">>
              /\ lists' = lists
              /\ validators' = validators
        /\ result' = "false" =>
              ran' = <<"fastValidator", diagnostic(validators[call'.index].allErrors)>>]_vars
C25_Witness ==
    /\ call.fn = "validator"
    /\ result = "false"
    /\ ran = <<"fastValidator", "issueValidator">>
    /\ Len(lists) > 1

\* C26: the fast procedure and the diagnostic procedure compiled from one
\* schema agree on every data value: the fast procedure returns false exactly
\* when the diagnostic procedure produces at least one issue, so a validator
\* that returned false has a defined, non-empty issues list.
C26_FastAndDiagnosticAgree ==
    Called =>
        /\ fastValidator(schema, data) = "fail"
              <=> (Reported(schema, allErrors, data).def
                   /\ Reported(schema, allErrors, data).list # <<>>)
        /\ result = "false" => (issues.def /\ issues.list # <<>>)

\* The fast procedure and both diagnostic procedures of s reject d.
RejectedByBoth(s, d) ==
    /\ fastValidator(s, d) = "fail"
    /\ issueValidator(s, d).list # <<>>
    /\ firstErrorValidator(s, d).def /\ firstErrorValidator(s, d).list # <<>>
\* d is NaN where s is Number, or an instance of the class s whose valueOf()
\* is NaN.
NotANumberFor(s, d) ==
    \/ s = TNumber /\ d = VNaN
    \/ s.k = "class" /\ TypeOf(d) = "object" /\ ~IsNullish(d)
          /\ InstanceOf(d, s.name) /\ d = VDate(FALSE)

\* C27: NaN is never a valid Number, and the fast procedure rejects it as
\* the diagnostic procedures do: a Number schema rejects NaN in both, and a
\* class schema (Date) rejects an instance whose valueOf() is NaN in both,
\* at the root and at a property of an object schema.
C27_NaNIsRejectedByBothProcedures ==
    Called =>
        /\ NotANumberFor(schema, data) => RejectedByBoth(schema, data)
        /\ (schema.k = "object" /\ IsPlainObject(data)) =>
              \A i \in 1..Len(schema.keys) :
                  NotANumberFor(schema.props[schema.keys[i]], Get(data, schema.keys[i]))
                      => RejectedByBoth(schema, data)
C27_Witness ==
    /\ Called
    /\ schema = SClass("Date")
    /\ data = VDate(FALSE)
    /\ result = "false"
    /\ issues.list # <<>>

\* C28: an array schema of n > 1 children accepts exactly the arrays of
\* length at most n whose element at every position i < n (undefined when
\* the array is shorter) is accepted by the i-th child; an array schema of
\* one child accepts exactly the arrays whose every element is accepted by
\* the child, the empty array among them.
C28_ArraySchemaIsPositionalOrUniform ==
    (Called /\ schema.k = "array") =>
        /\ Len(schema.items) > 1 =>
              (result = "true" <=>
                  /\ IsArray(data)
                  /\ Len(data.items) <= Len(schema.items)
                  /\ \A i \in 1..Len(schema.items) :
                        Accepts(schema.items[i],
                                IF i <= Len(data.items) THEN data.items[i] ELSE VUndef))
        /\ Len(schema.items) = 1 =>
              (result = "true" <=>
                  /\ IsArray(data)
                  /\ \A i \in 1..Len(data.items) : Accepts(schema.items[1], data.items[i]))
C28_Witness ==
    /\ Called
    /\ schema = SArr(<<TNumber, SOptional(TNumber)>>)
    /\ data = VArr(<<VNum(1)>>)
    /\ result = "true"

\* The positions of the registry that hold value.
IndicesOf(reg, value) == {i \in 0..(Len(reg) - 1) : reg[i + 1] = value}

\* C29: for one Context and any sequence of register calls the registry never
\* holds a value twice, a value is added at the end on its first registration
\* only, register returns the index of its argument in the registry (the same
\* one every time) and an index once given keeps its value; running the
\* generated code does not change the registry.
C29_RegistryIsAppendOnlyAndDeduplicated ==
    [][/\ \A i, j \in 1..Len(registry') : registry'[i] = registry'[j] => i = j
       /\ Len(registry') >= Len(registry)
       /\ \A i \in 1..Len(registry) : registry'[i] = registry[i]
       /\ call'.fn = "register" =>
             /\ IndicesOf(registry', call'.value) = {returned'}
             /\ IndicesOf(registry, call'.value) # {} => registry' = registry
             /\ IndicesOf(registry, call'.value) = {} =>
                   registry' = Append(registry, call'.value)
       /\ call'.fn = "validator" => registry' = registry]_vars
C29_Witness ==
    /\ call.fn = "register"
    /\ Len(registry) = 3
    /\ returned = 0

\* C30: an issues array a caller read from validator.issues is not changed by
\* a later invocation of that validator or of another one: every failing
\* invocation stores an array built by that invocation, and no invocation
\* appends to or clears an array that existed before (emptyIssues included).
C30_IssuesListsAreNeverReused ==
    [][/\ \A ref \in DOMAIN lists : ref \in DOMAIN lists' /\ lists'[ref] = lists[ref]
       /\ (call'.fn = "validator" /\ result' = "false") =>
             /\ validators'[call'.index].issues \in DOMAIN lists' \ DOMAIN lists
             /\ \A i \in DOMAIN validators :
                   i # call'.index => validators'[i].issues = validators[i].issues]_vars
C30_Witness ==
    /\ call.fn = "validator"
    /\ result = "false"
    /\ Len(validators) = 2
    /\ validators[1].issues # EmptyIssuesRef
    /\ validators[2].issues # EmptyIssuesRef
    /\ validators[1].issues # validators[2].issues
    /\ Len(lists) = 4

====
